---- MODULE Spec2Model ----
(***************************************************************************)
(* Model of the bioquery_agents workflow engine: StateGraph.run and        *)
(* StateGraph.validate, the                                                *)
(* RetryPolicy wrapped around a node handler, the MemoryCheckpointer, the  *)
(* SubgraphExecutor and SubgraphBuilder, the MiddlewareStack and the       *)
(* PlanningLoop.                                                           *)
(*                                                                         *)
(* A Python dict is a function whose DOMAIN is its key set.  The key       *)
(* "counter" holds an integer, every other key holds a string.  Python's   *)
(* None is the string None below; an exception is a record of its type     *)
(* and its message (str(e) is the message).                                *)
(***************************************************************************)
EXTENDS Integers, Sequences, FiniteSets, TLC

VARIABLES
    nodes,          \* StateGraph.nodes: name -> [retry_policy, on_failure]
    edges,          \* StateGraph.edges, in registration order
    entry_point,    \* StateGraph.entry_point
    pc,             \* position of the caller: "idle", "running", "returned", "raised", "crashed"
    state,          \* run(): the live state dict
    current_node,   \* run(): current_node
    thread_id,      \* run(): thread_id, read once from the initial state
    checkpointer,   \* run(): TRUE iff a checkpointer was passed
    raised,         \* the exception run() raised to its caller
    _store,         \* MemoryCheckpointer._store
    _timestamps,    \* MemoryCheckpointer._timestamps
    now,            \* datetime.now(UTC), in ticks
    runs,           \* number of run() calls made so far
    first,          \* first node whose handler was invoked in the current run
    last,           \* what the last step of run() did
    retry,          \* a direct call of RetryPolicy.execute: its policy and locals
    client,         \* a direct user of a MemoryCheckpointer: its dicts and last call
    executor,       \* a call of SubgraphExecutor.execute: its arguments and its record
    gather,         \* a call of SubgraphExecutor.execute_parallel: its concurrent runs
    stack,          \* a MiddlewareStack and the chain it is applying
    loop,           \* a PlanningLoop: todos, max_iterations, _iteration
    builder,        \* a call of SubgraphBuilder.extract: its arguments and its result
    validation      \* a call of StateGraph.validate: the list it returned

vars == <<nodes, edges, entry_point, pc, state, current_node, thread_id,
          checkpointer, raised, _store, _timestamps, now, runs, first, last,
          retry, client, executor, gather, stack, loop, builder, validation>>

graphVars == <<nodes, edges, entry_point>>
runVars == <<pc, state, current_node, thread_id, checkpointer, raised, runs, first>>
cpVars == <<_store, _timestamps>>
moduleVars == <<executor, gather, stack, loop, builder, validation>>
directVars == <<retry, client, moduleVars>>

----------------------------------------------------------------------------
(* Bounds of the model *)

MaxRuns == 2            \* run() calls per behaviour
RouteLimit == 1         \* threshold of route_by_counter
MaxCounter == RouteLimit + MaxRuns + 1   \* no step starts with a counter this high

----------------------------------------------------------------------------
(* Names and values *)

None == "None"
END == "END"
NodeNames == {"a", "b"}         \* names that can be registered
Ghost == "ghost"                \* a name that is never registered
ThreadIds == {"t1"}

Obj == "<object>"               \* a value json.dumps rejects
Tup == "(1, 2)"                 \* a tuple: json.dumps accepts it, json.loads returns a list
Lst == "[1, 2]"

IntKeys == {"counter"}

EmptyDict == [k \in {} |-> None]

\* dict.get(key, default)
Get(d, k, default) == IF k \in DOMAIN d THEN d[k] ELSE default

\* d[k] = v
Put(d, k, v) == [x \in DOMAIN d \cup {k} |-> IF x = k THEN v ELSE d[x]]

Merge_LeftWins(d, e) ==
    [x \in DOMAIN d \cup DOMAIN e |-> IF x \in DOMAIN d THEN d[x] ELSE e[x]]

\* {**d, **e}
Merge(d, e) == [x \in DOMAIN d \cup DOMAIN e |-> IF x \in DOMAIN e THEN e[x] ELSE d[x]]

\* dict.pop(k, None)
Pop(d, k) == [x \in DOMAIN d \ {k} |-> d[x]]

\* truth value of a str | None
Truthy(s) == s # None /\ s # ""

----------------------------------------------------------------------------
(* Exceptions and handler outcomes *)

NoExc == [type |-> "none", msg |-> ""]
Ok == [type |-> "ok", msg |-> ""]
TimeoutErr == [type |-> "TimeoutError", msg |-> "timed out"]
ValueErr == [type |-> "ValueError", msg |-> "Intentional failure"]
Exceptions == {TimeoutErr, ValueErr}
Outcomes == {Ok} \cup Exceptions
AllTypes == {"TimeoutError", "ValueError", "RuntimeError"}   \* retry_on = (Exception,)

NodeStatus == [PENDING |-> "pending", RUNNING |-> "running", SUCCESS |-> "success",
               FAILED |-> "failed", SKIPPED |-> "skipped"]

RuntimeErr == [type |-> "RuntimeError",
               msg |-> "Retry loop completed without result or exception"]
EntryErr == [type |-> "ValueError",
             msg |-> "Entry point not set. Call set_entry_point() first."]
UnknownNodeErr(name) == [type |-> "ValueError", msg |-> "Unknown node: " \o name]

----------------------------------------------------------------------------
(* MemoryCheckpointer *)

Ttl == 1                \* ttl_seconds of the checkpointer, in ticks
MaxTime == Ttl + 1      \* the clock stops ticking here

\* MemoryCheckpointer._serialize: keep the keys whose value json.dumps accepts
Serialize(s) ==
    [k \in {x \in DOMAIN s : x \in IntKeys \/ s[x] # Obj} |-> s[k]]

\* json.loads(json.dumps(d)): a fresh structure; tuples come back as lists
JsonRoundTrip(d) ==
    [k \in DOMAIN d |-> IF k \in IntKeys THEN d[k]
                        ELSE IF d[k] = Tup THEN Lst ELSE d[k]]

CpSave_Delta(cp, tid, s, t) ==
    [store |-> Put(cp.store, tid,
                   Merge(Get(cp.store, tid, EmptyDict), JsonRoundTrip(Serialize(s)))),
     timestamps |-> Put(cp.timestamps, tid, t)]

\* MemoryCheckpointer.save, on the pair cp = [store, timestamps] at time t
CpSave(cp, tid, s, t) ==
    [store |-> Put(cp.store, tid, JsonRoundTrip(Serialize(s))),
     timestamps |-> Put(cp.timestamps, tid, t)]

CpDelete_All(cp, tid) == [store |-> EmptyDict, timestamps |-> EmptyDict]

\* MemoryCheckpointer.delete
CpDelete(cp, tid) ==
    [store |-> Pop(cp.store, tid), timestamps |-> Pop(cp.timestamps, tid)]

CpLoad_KeepsExpired(cp, tid, t) ==
    IF tid \notin DOMAIN cp.store
    THEN [found |-> FALSE, value |-> EmptyDict, cp |-> cp]
    ELSE IF t - cp.timestamps[tid] > Ttl
    THEN [found |-> FALSE, value |-> EmptyDict, cp |-> cp]
    ELSE [found |-> TRUE, value |-> cp.store[tid], cp |-> cp]

\* MemoryCheckpointer.load: the result (found = "is not None") and the
\* checkpointer it leaves behind (an expired entry is deleted)
CpLoad(cp, tid, t) ==
    IF tid \notin DOMAIN cp.store
    THEN [found |-> FALSE, value |-> EmptyDict, cp |-> cp]
    ELSE IF t - cp.timestamps[tid] > Ttl
    THEN [found |-> FALSE, value |-> EmptyDict, cp |-> CpDelete(cp, tid)]
    ELSE [found |-> TRUE, value |-> cp.store[tid], cp |-> cp]

\* Checkpointer.exists
CpExists(cp, tid, t) == CpLoad(cp, tid, t).found

Cp == [store |-> _store, timestamps |-> _timestamps]

----------------------------------------------------------------------------
(* RetryPolicy and node handlers *)

MaxAttempts == 2        \* max_attempts of the retry policies in the model

\* an optional RetryPolicy is a sequence of length 0 (None) or 1
NoPolicy == <<>>
Policy(n, types) == <<[max_attempts |-> n, retry_on |-> types]>>

\* a node handler that returns: the handlers of tests/test_graph.py
\* (increment_node) mutate the state in place and return it
Handler(s) == Put(s, "counter", Get(s, "counter", 0) + 1)

\* a failure raised by a handler that has already written to the state: it
\* increments the counter in place and then raises
PartialErr == [type |-> "TimeoutError", msg |-> "failed after writing"]

Raising_RolledBack(s, o) == s

\* the live state after an invocation of the handler that raised o: the dict
\* is passed by reference and nothing restores it
Raising(s, o) == IF o = PartialErr THEN Handler(s) ELSE s

\* RetryPolicy.execute: the loop over range(max_attempts), from attempt on.
\* outcomes[i] is what the i-th invocation of the handler does.
RECURSIVE RetryLoop(_, _, _, _, _)
RetryLoop(policy, s, outcomes, attempt, last_exception) ==
    IF attempt >= policy.max_attempts
    THEN IF last_exception # NoExc
         THEN [exc |-> last_exception, state |-> s, calls |-> attempt]
         ELSE [exc |-> RuntimeErr, state |-> s, calls |-> attempt]
    ELSE LET o == outcomes[attempt + 1] IN
         IF o = Ok
         THEN [exc |-> Ok, state |-> Handler(s), calls |-> attempt + 1]
         ELSE IF o.type \in policy.retry_on
         THEN RetryLoop(policy, Raising(s, o), outcomes, attempt + 1, o)
         ELSE [exc |-> o, state |-> Raising(s, o), calls |-> attempt + 1]

RetryExecute(policy, s, outcomes) == RetryLoop(policy, s, outcomes, 0, NoExc)

\* a RetryPolicy with all its fields; intervals are whole seconds
FullPolicy(n, initial, multiplier, cap, types) ==
    [max_attempts |-> n, initial_interval |-> initial,
     backoff_multiplier |-> multiplier, max_interval |-> cap, retry_on |-> types]

\* the dataclass defaults
DefaultPolicy == FullPolicy(3, 1, 2, 30, AllTypes)

Min(x, y) == IF x <= y THEN x ELSE y

\* no call of execute has been made
RetryIdle ==
    [pc |-> "idle", self |-> DefaultPolicy, state |-> EmptyDict, attempt |-> 0,
     interval |-> 0, last_exception |-> NoExc, calls |-> <<>>, sleeps |-> <<>>,
     exc |-> NoExc]

ExecuteNode_NoRetry(node, s, outcomes) ==
    IF outcomes[1] = Ok
    THEN [exc |-> Ok, state |-> Handler(s), calls |-> 1]
    ELSE [exc |-> outcomes[1], state |-> Raising(s, outcomes[1]), calls |-> 1]

\* StateGraph._execute_node
ExecuteNode(node, s, outcomes) ==
    IF node.retry_policy # NoPolicy
    THEN RetryExecute(node.retry_policy[1], s, outcomes)
    ELSE IF outcomes[1] = Ok
    THEN [exc |-> Ok, state |-> Handler(s), calls |-> 1]
    ELSE [exc |-> outcomes[1], state |-> Raising(s, outcomes[1]), calls |-> 1]

----------------------------------------------------------------------------
(* Routing *)

Routers == {"route_by_counter", "route_ghost"}

\* the routers of conditional edges, evaluated on the state
Route(router, s) ==
    IF router = "route_by_counter"
    THEN IF Get(s, "counter", 0) > RouteLimit THEN END ELSE "a"
    ELSE Ghost

FirstEdge_Last(es, current) ==
    IF \E i \in 1..Len(es) : es[i].source = current
    THEN CHOOSE i \in 1..Len(es) :
            /\ es[i].source = current
            /\ \A j \in (i + 1)..Len(es) : es[j].source # current
    ELSE 0

\* index of the first edge whose source is current, 0 if there is none
FirstEdge(es, current) ==
    IF \E i \in 1..Len(es) : es[i].source = current
    THEN CHOOSE i \in 1..Len(es) :
            /\ es[i].source = current
            /\ \A j \in 1..(i - 1) : es[j].source # current
    ELSE 0

GetNextNode_Stay(es, current, s) ==
    LET i == FirstEdge(es, current) IN
    IF i = 0 THEN current
    ELSE IF es[i].condition # None THEN Route(es[i].condition, s)
    ELSE es[i].target

\* StateGraph._get_next_node
GetNextNode(es, current, s) ==
    LET i == FirstEdge(es, current) IN
    IF i = 0 THEN None
    ELSE IF es[i].condition # None THEN Route(es[i].condition, s)
    ELSE es[i].target

\* StateGraph.add_edge / add_conditional_edge build these
Edge(source, target) == [source |-> source, target |-> target, condition |-> None]
CondEdge(source, router) == [source |-> source, target |-> None, condition |-> router]

----------------------------------------------------------------------------
(* StateGraph.run: one iteration of the while loop *)

\* which branch of the try/except an execution result takes
Branch(exc, on_failure) ==
    IF exc = Ok THEN "success"
    ELSE IF on_failure = "error" THEN "error"
    ELSE IF on_failure = "skip" THEN "skip"
    ELSE "redirect"

StatusAfter_Running(branch) ==
    IF branch = "skip" THEN NodeStatus.SKIPPED
    ELSE IF branch = "success" THEN NodeStatus.RUNNING
    ELSE NodeStatus.FAILED

\* the _node_status the branch leaves in the state
StatusAfter(branch) ==
    IF branch = "success" THEN NodeStatus.SUCCESS
    ELSE IF branch = "skip" THEN NodeStatus.SKIPPED
    ELSE NodeStatus.FAILED

\* the state at the end of the iteration
StateAfter(res, branch) ==
    LET s1 == Put(res.state, "_node_status", StatusAfter(branch)) IN
    IF branch = "success" THEN s1 ELSE Put(s1, "_error", res.exc.msg)

SavesIn_NoError(branch) == branch \in {"success", "skip"}

SavesIn_NoSuccess(branch) == branch \in {"error", "skip"}

SavesIn_NoSkip(branch) == branch \in {"success", "error"}

\* the branches that reach a checkpointer.save call
SavesIn(branch) == branch \in {"success", "error", "skip"}

RoutesIn_NoSkip(branch) == branch = "success"

\* the branches that reach the _get_next_node call
RoutesIn(branch) == branch \in {"success", "skip"}

\* the checkpointer after the iteration
CpAfter(cp, use_cp, tid, s, branch, t) ==
    IF use_cp /\ Truthy(tid) /\ SavesIn(branch) THEN CpSave(cp, tid, s, t) ELSE cp

NextNode_RedirectRoutes(es, node, current, s, branch) ==
    IF branch \in {"success", "skip", "redirect"} THEN GetNextNode(es, current, s)
    ELSE current

\* current_node at the end of the iteration (unused when the failure is raised)
NextNode(es, node, current, s, branch) ==
    IF RoutesIn(branch) THEN GetNextNode(es, current, s)
    ELSE IF branch = "redirect" THEN node.on_failure
    ELSE current

NoStep == [op |-> "none", node |-> None, branch |-> "none", calls |-> 0,
           saved |-> FALSE, edge |-> 0, resumed |-> FALSE]

\* the while test fails: run returns the state
RunReturn ==
    /\ pc = "running"
    /\ ~(Truthy(current_node) /\ current_node # END)
    /\ pc' = "returned"
    /\ last' = [NoStep EXCEPT !.op = "return"]
    /\ UNCHANGED <<graphVars, directVars, cpVars, state, current_node, thread_id, checkpointer,
                   raised, now, runs, first>>

RunUnknownNode_Return ==
    /\ pc = "running"
    /\ Truthy(current_node) /\ current_node # END
    /\ current_node \notin DOMAIN nodes
    /\ pc' = "returned"
    /\ last' = [NoStep EXCEPT !.op = "unknown"]
    /\ UNCHANGED <<graphVars, directVars, cpVars, state, current_node, thread_id, checkpointer,
                   raised, now, runs, first>>

\* the node lookup fails
RunUnknownNode ==
    /\ pc = "running"
    /\ Truthy(current_node) /\ current_node # END
    /\ current_node \notin DOMAIN nodes
    /\ pc' = "raised"
    /\ raised' = UnknownNodeErr(current_node)
    /\ last' = [NoStep EXCEPT !.op = "unknown"]
    /\ UNCHANGED <<graphVars, directVars, cpVars, state, current_node, thread_id, checkpointer,
                   now, runs, first>>

\* the loop body for a registered node; outcomes[i] is what the i-th
\* invocation of its handler does
RunStep(outcomes) ==
    /\ pc = "running"
    /\ Truthy(current_node) /\ current_node # END
    /\ current_node \in DOMAIN nodes
    /\ Get(state, "counter", 0) < MaxCounter
    /\ LET node == nodes[current_node]
           s0 == Put(Put(state, "_current_node", current_node),
                     "_node_status", NodeStatus.RUNNING)
           res == ExecuteNode(node, s0, outcomes)
           branch == Branch(res.exc, node.on_failure)
           s1 == StateAfter(res, branch)
           cp1 == CpAfter(Cp, checkpointer, thread_id, s1, branch, now)
       IN /\ state' = s1
          /\ _store' = cp1.store
          /\ _timestamps' = cp1.timestamps
          /\ current_node' = NextNode(edges, node, current_node, s1, branch)
          /\ pc' = IF branch = "error" THEN "raised" ELSE "running"
          /\ raised' = IF branch = "error" THEN res.exc ELSE raised
          /\ first' = IF first = None /\ res.calls > 0 THEN current_node ELSE first
          /\ last' = [op |-> "step", node |-> current_node, branch |-> branch,
                      calls |-> res.calls,
                      saved |-> checkpointer /\ Truthy(thread_id) /\ SavesIn(branch),
                      edge |-> IF RoutesIn(branch) THEN FirstEdge(edges, current_node) ELSE 0,
                      resumed |-> FALSE]
    /\ UNCHANGED <<graphVars, directVars, thread_id, checkpointer, now, runs>>

ResumeNode_Entry(s, entry) == entry

\* the node a resumed run starts at, from the merged state
ResumeNode(s, entry) == Get(s, "_current_node", entry)

\* run(initial_state, checkpointer) up to the first test of the while loop
RunStart(initial_state, use_cp) ==
    /\ pc # "running"
    /\ runs < MaxRuns
    /\ runs' = runs + 1
    /\ checkpointer' = use_cp
    /\ first' = None
    /\ IF entry_point = None
       THEN /\ pc' = "raised"
            /\ raised' = EntryErr
            /\ last' = [NoStep EXCEPT !.op = "start"]
            /\ UNCHANGED <<state, current_node, thread_id, cpVars>>
       ELSE LET tid == Get(initial_state, "thread_id", None)
                loads == use_cp /\ Truthy(tid)
                ld == CpLoad(Cp, tid, now)
                resume == loads /\ ld.found /\ DOMAIN ld.value # {}
                s0 == IF resume THEN Merge(initial_state, ld.value) ELSE initial_state
            IN /\ pc' = "running"
               /\ raised' = NoExc
               /\ thread_id' = tid
               /\ state' = s0
               /\ current_node' = IF resume THEN ResumeNode(s0, entry_point)
                                  ELSE entry_point
               /\ _store' = IF loads THEN ld.cp.store ELSE _store
               /\ _timestamps' = IF loads THEN ld.cp.timestamps ELSE _timestamps
               /\ last' = [NoStep EXCEPT !.op = "start", !.resumed = resume]
    /\ UNCHANGED <<graphVars, directVars, now>>

----------------------------------------------------------------------------
(* The caller and the clock *)

\* the caller saves a snapshot of its own under a thread id, before its first run
Save(tid, s) ==
    /\ pc = "idle"
    /\ LET cp1 == CpSave(Cp, tid, s, now) IN
       /\ _store' = cp1.store
       /\ _timestamps' = cp1.timestamps
    /\ last' = [NoStep EXCEPT !.op = "caller"]
    /\ UNCHANGED <<graphVars, directVars, runVars, now>>

\* the caller deletes the snapshot of a thread id
Delete(tid) ==
    /\ pc # "running"
    /\ runs < MaxRuns
    /\ LET cp1 == CpDelete(Cp, tid) IN
       /\ _store' = cp1.store
       /\ _timestamps' = cp1.timestamps
    /\ last' = [NoStep EXCEPT !.op = "caller"]
    /\ UNCHANGED <<graphVars, directVars, runVars, now>>

\* time passes between runs; the clock only matters once a timestamp is stored
Tick ==
    /\ pc \in {"returned", "raised"}
    /\ runs < MaxRuns
    /\ DOMAIN _timestamps # {}
    /\ now < MaxTime
    /\ now' = now + 1
    /\ last' = [NoStep EXCEPT !.op = "caller"]
    /\ UNCHANGED <<graphVars, directVars, runVars, cpVars>>

----------------------------------------------------------------------------
(* Inputs *)

Dict1(k, v) == [x \in {k} |-> v]

\* initial states the caller passes to run
InitialStates ==
    LET c == Dict1("counter", 0)
        t == Put(c, "thread_id", "t1")
    IN {c, Put(Put(t, "handle", Obj), "pair", Tup)}

\* snapshots the caller saves itself
CallerSnapshots ==
    LET c == Dict1("counter", 0)
    IN {EmptyDict, c, Put(c, "_current_node", Ghost)}

OutcomeSeqs == [1..MaxAttempts -> Outcomes]

EdgeChoices ==
    {Edge(s, t) : s \in NodeNames, t \in NodeNames \cup {END, Ghost}}
    \cup {CondEdge(s, r) : s \in NodeNames, r \in Routers}

EdgeLists ==
    {<<>>} \cup {<<e>> : e \in EdgeChoices}
    \cup {<<e, f>> : e \in EdgeChoices, f \in EdgeChoices}

OnFailureChoices == {"error", "skip", END, Ghost} \cup NodeNames

PolicyChoices ==
    {NoPolicy, Policy(MaxAttempts, AllTypes), Policy(MaxAttempts, {"TimeoutError"})}

Node(policy, on_failure) == [retry_policy |-> policy, on_failure |-> on_failure]

DefaultNodes == [n \in NodeNames |-> Node(NoPolicy, "error")]

\* the graphs of the model: every edge list under the default node settings,
\* and every node setting under a few edge lists
Graphs ==
    {[nodes |-> DefaultNodes, edges |-> es, entry_point |-> "a"] : es \in EdgeLists}
    \cup
    {[nodes |-> [n \in NodeNames |-> IF n = "a" THEN Node(pa, fa) ELSE Node(NoPolicy, fb)],
      edges |-> es, entry_point |-> "a"] :
        pa \in PolicyChoices, fa \in OnFailureChoices, fb \in OnFailureChoices,
        es \in {<<Edge("a", "b"), Edge("b", END)>>,
                <<CondEdge("a", "route_by_counter"), Edge("b", "a")>>,
                <<Edge("a", END)>>}}
    \cup
    {[nodes |-> DefaultNodes, edges |-> <<Edge("a", END)>>, entry_point |-> None]}

\* the graphs that are run several times against one checkpointer
ResumeGraphs ==
    {[nodes |-> [n \in NodeNames |-> IF n = "a" THEN Node(NoPolicy, fa) ELSE Node(NoPolicy, fb)],
      edges |-> es, entry_point |-> "a"] :
        fa \in {"error", "skip", "b"}, fb \in {"error", "skip"},
        es \in {<<Edge("a", "b"), Edge("b", END)>>,
                <<CondEdge("a", "route_by_counter"), Edge("b", "a")>>}}
    \cup
    {[nodes |-> DefaultNodes, edges |-> es, entry_point |-> "a"] :
        es \in {<<Edge("a", Ghost)>>, <<CondEdge("a", "route_ghost")>>}}
    \cup
    {[nodes |-> [n \in NodeNames |-> Node(NoPolicy, IF n = "a" THEN Ghost ELSE "error")],
      edges |-> <<Edge("a", "b"), Edge("b", END)>>, entry_point |-> "a"]}

\* thread ids a direct user of the checkpointer saves under
ClientThreadIds == {"t1", "t2"}

\* no direct user of the checkpointer has done anything: it holds a state
\* dict (live) and nothing returned by load (got)
ClientIdle ==
    [op |-> "none", tid |-> None, found |-> FALSE, ops |-> 0,
     live |-> EmptyDict, linked |-> [t \in ClientThreadIds |-> "none"],
     holds |-> FALSE, got |-> EmptyDict, alias |-> None,
     returned |-> EmptyDict, prevKeys |-> {}, removed |-> FALSE]

\* a graph of gs has been built; nothing has run and nothing is stored
Built(gs) ==
    /\ \E g \in gs :
        /\ nodes = g.nodes
        /\ edges = g.edges
        /\ entry_point = g.entry_point
    /\ pc = "idle"
    /\ state = EmptyDict
    /\ current_node = None
    /\ thread_id = None
    /\ checkpointer = FALSE
    /\ raised = NoExc
    /\ _store = EmptyDict
    /\ _timestamps = EmptyDict
    /\ now = 0
    /\ runs = 0
    /\ first = None
    /\ last = NoStep

\* no subgraph executor, middleware stack, planning loop or subgraph builder
\* has been constructed, and validate has not been called
Unused == [pc |-> "unused"]

Unconstructed ==
    /\ executor = Unused
    /\ gather = Unused
    /\ stack = Unused
    /\ loop = Unused
    /\ builder = Unused
    /\ validation = Unused

\* ... and neither the retry policy nor the checkpointer is used directly
InitWith(gs) ==
    Built(gs) /\ retry = RetryIdle /\ client = ClientIdle /\ Unconstructed

\* one run of any graph, with or without a fresh checkpointer
Init == InitWith(Graphs)

\* the only call of run
FirstRun(initial_state, use_cp) == runs = 0 /\ RunStart(initial_state, use_cp)

Next ==
    \/ \E s \in InitialStates, c \in BOOLEAN : FirstRun(s, c)
    \/ \E o \in OutcomeSeqs : RunStep(o)
    \/ RunUnknownNode
    \/ RunReturn

Spec == Init /\ [][Next]_vars

\* the run loop keeps going: a handler returns or raises, and the loop then
\* takes its next iteration or leaves
RunProgress ==
    \/ \E o \in OutcomeSeqs : RunStep(o)
    \/ RunUnknownNode
    \/ RunReturn

FairSpec == Init /\ [][Next]_vars /\ WF_vars(RunProgress)

\* several runs against one checkpointer that the caller also writes to and
\* deletes from, while time passes between the runs
ResumeInit == InitWith(ResumeGraphs)

ResumeNext ==
    \/ \E s \in InitialStates, c \in BOOLEAN : RunStart(s, c)
    \/ \E o \in OutcomeSeqs : RunStep(o)
    \/ RunUnknownNode
    \/ RunReturn
    \/ \E t \in ThreadIds, s \in CallerSnapshots : Save(t, s)
    \/ \E t \in ThreadIds : Delete(t)
    \/ Tick

ResumeSpec == ResumeInit /\ [][ResumeNext]_vars

TypeOK ==
    /\ pc \in {"idle", "running", "returned", "raised"}
    /\ runs \in 0..MaxRuns
    /\ now \in 0..MaxTime
    /\ DOMAIN _store = DOMAIN _timestamps
    /\ DOMAIN _store \subseteq ThreadIds

----------------------------------------------------------------------------
(* Properties of StateGraph.run *)

\* the last action was a loop iteration whose handler failed
FailedStep == last.op = "step" /\ last.branch # "success"

\* the run writes checkpoints
Checkpointing == checkpointer /\ Truthy(thread_id)

\* the stored snapshot of the run's thread id is the JSON image of the live state
SnapshotIsState ==
    /\ thread_id \in DOMAIN _store
    /\ _store[thread_id] = JsonRoundTrip(Serialize(state))
    /\ _timestamps[thread_id] = now

\* C1: when a node whose on_failure is "error" fails, run sets _node_status to
\* "failed" and _error to the error text, saves the full state under the thread
\* id if a checkpointer and a thread id are present, and raises that failure;
\* once it has raised, the run invokes no handler and evaluates no routing.
C1_Propagate ==
    /\ [](FailedStep /\ nodes[last.node].on_failure = "error" =>
            /\ pc = "raised"
            /\ raised \in Exceptions
            /\ state["_node_status"] = NodeStatus.FAILED
            /\ state["_error"] = raised.msg
            /\ last.edge = 0
            /\ (Checkpointing => SnapshotIsState))
    /\ [][pc = "raised" =>
            \/ pc' = "raised" /\ UNCHANGED <<state, current_node, first, raised>>
            \/ runs' = runs + 1]_vars

C1_Witness ==
    /\ FailedStep /\ nodes[last.node].on_failure = "error"
    /\ Checkpointing
    /\ nodes[last.node].retry_policy # NoPolicy
    /\ last.calls = MaxAttempts

\* The edge that routing must use for a node: the least index whose source is it
LeastEdgeOf(n) ==
    CHOOSE i \in 1..Len(edges) :
        /\ edges[i].source = n
        /\ \A j \in 1..Len(edges) : edges[j].source = n => i <= j

HasEdge(n) == \E i \in 1..Len(edges) : edges[i].source = n

\* the node that edge i leads to in state s
EdgeTarget(i, s) ==
    IF edges[i].condition # None THEN Route(edges[i].condition, s) ELSE edges[i].target

\* C2: when a node whose on_failure is "skip" fails, run records the error text
\* in _error, sets _node_status to "skipped", does not raise and continues with
\* the node its own outgoing edge selects; a later successful node sets the
\* status back to "success" (fail[skip] -> after -> END from counter 0 returns
\* counter 1 with status success).
C2_Skip ==
    /\ FailedStep /\ nodes[last.node].on_failure = "skip" =>
        /\ pc = "running"
        /\ state["_node_status"] = NodeStatus.SKIPPED
        /\ state["_error"] \in {e.msg : e \in Exceptions}
        /\ HasEdge(last.node) => current_node = EdgeTarget(LeastEdgeOf(last.node), state)
    /\ last.op = "step" /\ last.branch = "success" =>
        state["_node_status"] = NodeStatus.SUCCESS
    /\ ( /\ pc = "returned"
         /\ edges = <<Edge("a", "b"), Edge("b", END)>>
         /\ nodes["a"].on_failure = "skip" /\ nodes["b"].on_failure = "error"
         /\ first = "a" /\ ~Checkpointing
         /\ "_error" \in DOMAIN state )
       => state["counter"] = 1 /\ state["_node_status"] = NodeStatus.SUCCESS

C2_Witness ==
    /\ pc = "returned"
    /\ edges = <<Edge("a", "b"), Edge("b", END)>>
    /\ nodes["a"].on_failure = "skip" /\ nodes["b"].on_failure = "error"
    /\ first = "a" /\ ~Checkpointing
    /\ "_error" \in DOMAIN state
    /\ state["counter"] = 1

\* the last action was a loop iteration that failed and whose node names a
\* redirect target
RedirectStep == FailedStep /\ nodes[last.node].on_failure \notin {"error", "skip"}

\* the last action was a loop iteration that went on to routing
RoutedStep ==
    /\ last.op = "step"
    /\ last.branch = "success" \/ nodes[last.node].on_failure = "skip"

\* C3: when a node whose on_failure names another node fails, the next node
\* executed is exactly that node; the failing node's edges are not evaluated,
\* the stored snapshot is not changed by the step, the error text is recorded
\* in _error and the run does not raise.
C3_Redirect ==
    /\ [](RedirectStep =>
            /\ pc = "running"
            /\ raised = NoExc
            /\ current_node = nodes[last.node].on_failure
            /\ last.edge = 0
            /\ state["_error"] \in {e.msg : e \in Exceptions})
    /\ [][RedirectStep' => UNCHANGED cpVars]_vars
    /\ [][RedirectStep /\ last'.op = "step" => last'.node = nodes[last.node].on_failure]_vars

C3_Witness ==
    /\ RedirectStep
    /\ Checkpointing /\ thread_id \in DOMAIN _store
    /\ HasEdge(last.node)
    /\ nodes[last.node].on_failure \in DOMAIN nodes
    /\ nodes[last.node].on_failure # EdgeTarget(LeastEdgeOf(last.node), state)

\* C4 as stated: a step whose node fails under the skip policy never writes a
\* checkpoint.
C4_Original ==
    [][FailedStep' /\ nodes[last'.node].on_failure = "skip" => UNCHANGED cpVars]_vars

\* C4, amended: in a run with a checkpointer and a thread id, every step whose
\* handler succeeded, failed under the propagate policy or failed under the
\* skip policy saves the full state; only a step that fails under a redirect
\* policy leaves the checkpointer untouched.
C4_SaveSteps ==
    [][last'.op = "step" /\ Checkpointing' =>
          IF RedirectStep' THEN UNCHANGED cpVars ELSE SnapshotIsState']_vars

C4_Witness ==
    /\ FailedStep /\ nodes[last.node].on_failure = "skip"
    /\ Checkpointing
    /\ _store[thread_id]["_node_status"] = NodeStatus.SKIPPED

\* C5: routing uses the first edge, in registration order, whose source is the
\* current node: its fixed target if unconditional, the router's value on the
\* current state if conditional; later edges with that source are never used.
C5_FirstEdge ==
    RoutedStep /\ HasEdge(last.node) =>
        /\ last.edge = LeastEdgeOf(last.node)
        /\ current_node = EdgeTarget(LeastEdgeOf(last.node), state)

C5_Witness ==
    /\ RoutedStep
    /\ Len(edges) = 2
    /\ edges[1].source = last.node /\ edges[2].source = last.node
    /\ edges[1].condition # None /\ edges[2].condition = None
    /\ EdgeTarget(1, state) # EdgeTarget(2, state)
    /\ current_node = EdgeTarget(1, state)

\* C6 as stated: when no edge leaves the node just executed, run surfaces an
\* error instead of returning a final state.
C6_Original == pc = "returned" => current_node # None

\* C7: whenever the current node name is neither the terminal marker nor a
\* registered node, run fails with the unknown-node error before invoking any
\* handler for that step.
C7_UnknownNode ==
    [][pc = "running" /\ current_node \notin DOMAIN nodes \cup {END, None} =>
          /\ pc' = "raised"
          /\ raised' = UnknownNodeErr(current_node)
          /\ last'.calls = 0
          /\ UNCHANGED <<state, first, cpVars>>]_vars

C7_Witness ==
    /\ last.op = "unknown"
    /\ pc = "raised"
    /\ raised = UnknownNodeErr(Ghost)
    /\ first = None
    /\ thread_id \in DOMAIN _store /\ _store[thread_id]["_current_node"] = Ghost

JsonImage(k, v) == IF k \notin IntKeys /\ v = Tup THEN Lst ELSE v

\* C10: in a run with a checkpointer and a thread id, immediately after every
\* step whose handler succeeded, load(thread id) yields the serializable part
\* of the live state, with _current_node that node and _node_status "success";
\* a run without a thread id or without a checkpointer never saves.
C10_SuccessCheckpoint ==
    /\ [](last.op = "step" /\ last.branch = "success" /\ Checkpointing =>
            LET ld == CpLoad(Cp, thread_id, now) IN
            /\ ld.found
            /\ DOMAIN ld.value = {k \in DOMAIN state : k \in IntKeys \/ state[k] # Obj}
            /\ \A k \in DOMAIN ld.value : ld.value[k] = JsonImage(k, state[k])
            /\ ld.value["_current_node"] = last.node
            /\ ld.value["_node_status"] = NodeStatus.SUCCESS)
    /\ [][(pc = "running" \/ pc' = "running") /\ ~Checkpointing' => UNCHANGED cpVars]_vars

C10_Witness ==
    /\ last.op = "step" /\ last.branch = "success" /\ Checkpointing
    /\ "handle" \in DOMAIN state /\ "handle" \notin DOMAIN _store[thread_id]
    /\ state["pair"] = Tup /\ _store[thread_id]["pair"] = Lst
    /\ state["counter"] = 2

----------------------------------------------------------------------------
(* Termination of StateGraph.run *)

\* the names a router can return
RouterRange(router) == IF router = "route_by_counter" THEN {END, "a"} ELSE {Ghost}

\* the nodes the edges of n lead to
EdgeSucc(n) ==
    UNION {IF edges[i].condition # None THEN RouterRange(edges[i].condition)
           ELSE {edges[i].target} : i \in {j \in 1..Len(edges) : edges[j].source = n}}

\* the node a failure of n redirects to
RedirectSucc(n) ==
    IF n \in DOMAIN nodes /\ nodes[n].on_failure \notin {"error", "skip"}
    THEN {nodes[n].on_failure} ELSE {}

AllSucc(n) == EdgeSucc(n) \cup RedirectSucc(n)

\* the nodes reached from the set ns in at most k steps of Succ
RECURSIVE Reach(_, _, _)
Reach(Succ(_), ns, k) ==
    IF k = 0 THEN ns
    ELSE Reach(Succ, ns \cup UNION {Succ(n) : n \in ns}, k - 1)

Depth == Cardinality(NodeNames) + 1

\* a registered node that lies on a cycle of Succ is reachable from x
CycleFrom(Succ(_), x) ==
    \E n \in Reach(Succ, {x}, Depth) \cap DOMAIN nodes :
        n \in Reach(Succ, Succ(n), Depth)

\* a conditional edge lies on a cycle reachable from the entry node
ConditionalCycle ==
    \E i \in 1..Len(edges) :
        /\ edges[i].condition # None
        /\ edges[i].source \in Reach(EdgeSucc, {entry_point}, Depth) \cap DOMAIN nodes
        /\ edges[i].source \in Reach(EdgeSucc, RouterRange(edges[i].condition), Depth)

\* the counter has reached the bound of the model: RunStep goes no further
AtHorizon == Get(state, "counter", 0) >= MaxCounter

\* C8 as stated, first sentence: a run of a graph whose edges form no cycle
\* reachable from the entry node terminates, under every assignment of failure
\* policies and retry policies to its nodes.
C8_Original ==
    (pc = "running" /\ ~CycleFrom(EdgeSucc, entry_point)) ~> (pc # "running" \/ AtHorizon)

\* C8 as stated, second sentence, "only if": a run of a graph with a
\* conditional cycle that has terminated has had its router return the
\* terminal marker.
C8_OriginalOnlyIf ==
    pc \in {"returned", "raised"} /\ ConditionalCycle =>
        pc = "returned" /\ current_node = END

\* C8, amended: a run terminates when no cycle formed by the edges together
\* with the on_failure redirect targets is reachable from the node it is at;
\* a run whose router returns the terminal marker returns.
C8_Terminates ==
    /\ (pc = "running" /\ ~CycleFrom(AllSucc, current_node)) ~> (pc # "running")
    /\ (pc = "running" /\ current_node = END) ~> (pc = "returned")

C8_Witness ==
    /\ pc = "returned"
    /\ ~CycleFrom(AllSucc, entry_point)
    /\ nodes["a"].on_failure = "b"
    /\ nodes["a"].retry_policy # NoPolicy
    /\ first = "a" /\ "_error" \in DOMAIN state

\* the unknown name came from an unconditional edge, a router or a redirect
C7_ReachedByStep ==
    /\ last.op = "unknown"
    /\ raised = UnknownNodeErr(Ghost)
    /\ first # None

----------------------------------------------------------------------------
(* Retries inside a step of StateGraph.run *)

\* every invocation described by outcomes raises a failure the policy retries
AllEligible(policy, outcomes) ==
    \A i \in 1..policy.max_attempts :
        outcomes[i] # Ok /\ outcomes[i].type \in policy.retry_on

\* C11: for a node with a retry policy of max_attempts n whose handler raises
\* an eligible failure on every invocation, one step invokes the handler
\* exactly n times, and only then applies the node's on_failure policy, once,
\* with the failure of the n-th invocation: that failure is the one raised
\* (propagate) or recorded in _error (skip, redirect).
C11_RetriesFirst ==
    [][\A o \in OutcomeSeqs :
          ( /\ RunStep(o)
            /\ nodes[current_node].retry_policy # NoPolicy
            /\ AllEligible(nodes[current_node].retry_policy[1], o) )
          => LET policy == nodes[current_node].retry_policy[1]
                 n == policy.max_attempts
                 on_failure == nodes[current_node].on_failure
             IN /\ last'.calls = n
                /\ last'.branch = Branch(o[n], on_failure)
                /\ state'["_error"] = o[n].msg
                /\ state'["_node_status"] =
                      (IF on_failure = "skip" THEN NodeStatus.SKIPPED ELSE NodeStatus.FAILED)
                /\ IF on_failure = "error"
                   THEN pc' = "raised" /\ raised' = o[n]
                   ELSE pc' = "running" /\ raised' = raised
                /\ on_failure \notin {"error", "skip"} => current_node' = on_failure]_vars

C11_Witness ==
    /\ last.op = "step" /\ last.branch = "redirect"
    /\ nodes[last.node].retry_policy # NoPolicy
    /\ nodes[last.node].retry_policy[1].retry_on = AllTypes
    /\ last.calls = MaxAttempts /\ MaxAttempts > 1
    /\ state["_error"] = ValueErr.msg
    /\ current_node = "b"

----------------------------------------------------------------------------
(* RetryPolicy.execute called directly, statement by statement *)

MaxTries == 3           \* largest max_attempts of a directly executed policy

InitialChoices == {1, 3}        \* initial_interval
MultiplierChoices == {1, 2}     \* backoff_multiplier
CapChoices == {2, 5}            \* max_interval

RetryPolicies ==
    {FullPolicy(n, i, m, c, t) :
        n \in 0..MaxTries, i \in InitialChoices, m \in MultiplierChoices,
        c \in CapChoices, t \in {AllTypes, {"TimeoutError"}}}

\* the state handed to execute
RetryInput == Dict1("counter", 0)

\* a graph that is never run
NoGraph == [nodes |-> DefaultNodes, edges |-> <<>>, entry_point |-> None]

\* a policy has been constructed; execute has not been called
RetryInit ==
    /\ Built({NoGraph})
    /\ client = ClientIdle
    /\ Unconstructed
    /\ \E p \in RetryPolicies :
         retry = [RetryIdle EXCEPT !.self = p, !.state = RetryInput]

Eligible_Any(self, e) == TRUE

\* except self.retry_on as e
Eligible(self, e) == e.type \in self.retry_on

Surfaced_Runtime(last_exception) == RuntimeErr

\* what execute raises after the loop
Surfaced(last_exception) ==
    IF last_exception # NoExc THEN last_exception ELSE RuntimeErr

\* execute is entered: the locals are initialised
ExecuteCall ==
    /\ retry.pc = "idle"
    /\ retry' = [retry EXCEPT !.pc = "for", !.attempt = 0,
                              !.last_exception = NoExc,
                              !.interval = retry.self.initial_interval]
    /\ UNCHANGED <<graphVars, runVars, cpVars, now, last, client, moduleVars>>

\* one pass through the try statement; o is what the handler does
ExecuteAttempt(o) ==
    /\ retry.pc = "for"
    /\ retry.attempt < retry.self.max_attempts
    /\ retry' =
         LET r == [retry EXCEPT !.calls = Append(retry.calls, o),
                                !.state = Raising(retry.state, o)] IN
         IF o = Ok
         THEN [r EXCEPT !.pc = "returned", !.exc = Ok, !.state = Handler(retry.state)]
         ELSE IF Eligible(retry.self, o)
         THEN IF retry.attempt < retry.self.max_attempts - 1
              THEN [r EXCEPT !.pc = "sleep", !.last_exception = o]
              ELSE [r EXCEPT !.attempt = retry.attempt + 1, !.last_exception = o]
         ELSE [r EXCEPT !.pc = "raised", !.exc = o]
    /\ UNCHANGED <<graphVars, runVars, cpVars, now, last, client, moduleVars>>

\* asyncio.sleep(interval), then the interval is multiplied and capped
ExecuteSleep ==
    /\ retry.pc = "sleep"
    /\ retry' = [retry EXCEPT
                   !.pc = "for",
                   !.attempt = retry.attempt + 1,
                   !.sleeps = Append(retry.sleeps, retry.interval),
                   !.interval = Min(retry.interval * retry.self.backoff_multiplier,
                                    retry.self.max_interval)]
    /\ UNCHANGED <<graphVars, runVars, cpVars, now, last, client, moduleVars>>

\* the loop is over without a return
ExecuteExhausted ==
    /\ retry.pc = "for"
    /\ retry.attempt >= retry.self.max_attempts
    /\ retry' = [retry EXCEPT !.pc = "raised", !.exc = Surfaced(retry.last_exception)]
    /\ UNCHANGED <<graphVars, runVars, cpVars, now, last, client, moduleVars>>

RetryNext ==
    \/ ExecuteCall
    \/ \E o \in Outcomes : ExecuteAttempt(o)
    \/ ExecuteSleep
    \/ ExecuteExhausted

RetrySpec == RetryInit /\ [][RetryNext]_vars

\* execute has returned or raised
RetryDone == retry.pc \in {"returned", "raised"}

\* the i-th invocation raised a failure the policy retries
EligibleCall(i) == retry.calls[i] # Ok /\ retry.calls[i].type \in retry.self.retry_on

\* the statement-by-statement execute and RetryExecute agree on every input
RetryLoopAgrees ==
    RetryDone =>
        LET o == [i \in 1..(MaxTries + 1) |->
                    IF i <= Len(retry.calls) THEN retry.calls[i] ELSE Ok]
            res == RetryExecute(retry.self, RetryInput, o)
        IN /\ res.exc = retry.exc
           /\ res.calls = Len(retry.calls)
           /\ res.exc = Ok => res.state = retry.state

\* C12: with max_attempts n >= 1 the handler is invoked at most n times; an
\* invocation that succeeds is the last one, and execute returns its result
\* right after it (k invocations for a success on attempt k); when all n
\* invocations raised eligible failures execute raises the failure of the
\* n-th invocation itself.
C12_Execute ==
    LET n == retry.self.max_attempts
        k == Len(retry.calls)
    IN n >= 1 =>
        /\ k <= n
        /\ \A i \in 1..k : retry.calls[i] = Ok =>
              /\ i = k
              /\ retry.pc = "returned"
              /\ retry.exc = Ok
              /\ retry.state = Handler(RetryInput)
        /\ retry.pc = "returned" => k >= 1 /\ retry.calls[k] = Ok
        /\ (retry.pc = "for" /\ k = n) => retry.attempt = n
        /\ (RetryDone /\ \A i \in 1..k : EligibleCall(i)) =>
              /\ k = n
              /\ retry.pc = "raised"
              /\ retry.exc = retry.calls[n]

C12_Witness ==
    /\ retry.pc = "raised"
    /\ retry.self.max_attempts = 3
    /\ retry.calls = <<ValueErr, ValueErr, TimeoutErr>>
    /\ retry.exc = TimeoutErr

\* a success on the second of three attempts
C12_SecondAttempt ==
    /\ retry.pc = "returned"
    /\ retry.self.max_attempts = 3
    /\ retry.calls = <<TimeoutErr, Ok>>

\* C13: a failure whose type is not in retry_on is never retried: it is the
\* last invocation and execute raises it from that attempt; a handler whose
\* first failure is not eligible is invoked exactly once, whatever
\* max_attempts is, and nothing is slept.
C13_NotEligible ==
    LET k == Len(retry.calls) IN
    /\ \A i \in 1..k : (retry.calls[i] # Ok /\ ~EligibleCall(i)) =>
          /\ i = k
          /\ retry.pc = "raised"
          /\ retry.exc = retry.calls[i]
          /\ Len(retry.sleeps) = i - 1
    /\ (k >= 1 /\ retry.calls[1] # Ok /\ ~EligibleCall(1)) =>
          k = 1 /\ retry.sleeps = <<>>

C13_Witness ==
    /\ retry.pc = "raised"
    /\ retry.self.max_attempts = 3
    /\ retry.self.retry_on = {"TimeoutError"}
    /\ retry.calls = <<ValueErr>>
    /\ retry.exc = ValueErr
    /\ retry.sleeps = <<>>

RECURSIVE Pow(_, _)
Pow(b, e) == IF e = 0 THEN 1 ELSE b * Pow(b, e - 1)

\* C14 as stated: the delay slept before the k-th retry is the initial interval
\* multiplied (k-1) times and capped at max_interval, so no delay exceeds
\* max_interval, for all parameter values.
C14_Original ==
    \A k \in 1..Len(retry.sleeps) :
        /\ retry.sleeps[k] =
             Min(retry.self.initial_interval * Pow(retry.self.backoff_multiplier, k - 1),
                 retry.self.max_interval)
        /\ retry.sleeps[k] <= retry.self.max_interval

\* the part of C14 the code does satisfy: the first delay is the initial
\* interval as given, each later delay is the previous one multiplied and
\* capped; one sleep separates consecutive attempts and none follows the last
C14_AsBuilt ==
    /\ \A k \in 1..Len(retry.sleeps) :
          retry.sleeps[k] =
            IF k = 1 THEN retry.self.initial_interval
            ELSE Min(retry.sleeps[k - 1] * retry.self.backoff_multiplier,
                     retry.self.max_interval)
    /\ Len(retry.calls) >= 1 =>
          Len(retry.sleeps) =
            (IF retry.pc = "for" /\ retry.attempt < retry.self.max_attempts
             THEN Len(retry.calls) ELSE Len(retry.calls) - 1)

\* the uncapped first delay
C14_FirstDelayOverCap ==
    /\ RetryDone
    /\ Len(retry.sleeps) = 2
    /\ retry.sleeps[1] > retry.self.max_interval
    /\ retry.sleeps[2] = retry.self.max_interval

----------------------------------------------------------------------------
(* A MemoryCheckpointer used directly: save, load, exists and delete under  *)
(* several thread ids, while the caller keeps mutating the dicts it holds   *)

MaxOps == 4             \* calls and mutations of the direct user per behaviour

Lst3 == "[1, 2, 3]"             \* the list Lst after append(3)

\* the dicts the caller starts with
LiveStates ==
    LET a == Put(Put(Dict1("key", "original"), "items", Lst), "handle", Obj)
    IN {a, Put(a, "pair", Tup)}

\* in-place mutations of a dict: change, add and remove a top-level key, and
\* append to the list nested under "items"
Mutations == {"set", "add", "del", "append"}

Mutate(dict, m) ==
    IF m = "set" THEN (IF "key" \in DOMAIN dict THEN Put(dict, "key", "mutated") ELSE dict)
    ELSE IF m = "add" THEN Put(dict, "extra", "added")
    ELSE IF m = "del" THEN Pop(dict, "key")
    ELSE IF "items" \in DOMAIN dict /\ dict["items"] = Lst THEN Put(dict, "items", Lst3)
    ELSE dict

SaveShares_Nested == "nested"

\* what the dict stored by save shares with the caller's state: nothing,
\* json.loads builds every object anew
SaveShares == "none"

\* what the value returned by load shares with the stored dict: load returns
\* self._store[thread_id], the stored dict itself
LoadShares == "all"

\* a mutation m of one dict shows in a dict that shares `how` with it
Propagates(how, m) == how = "all" \/ (how = "nested" /\ m = "append")

\* the stored entry of tid is replaced or removed: the object the caller got
\* from load is no longer the stored one, and the entry shares nothing
Detach(c, tid) ==
    [c EXCEPT !.alias = IF c.alias = tid THEN None ELSE c.alias,
              !.linked[tid] = "none"]

\* a checkpointer has been constructed and the caller holds a state dict
StoreInit ==
    /\ Built({NoGraph})
    /\ retry = RetryIdle
    /\ Unconstructed
    /\ \E l \in LiveStates : client = [ClientIdle EXCEPT !.live = l]

\* await checkpointer.save(tid, live)
ClientSave(tid) ==
    /\ client.ops < MaxOps
    /\ LET cp1 == CpSave(Cp, tid, client.live, now) IN
       /\ _store' = cp1.store
       /\ _timestamps' = cp1.timestamps
    /\ client' = [Detach(client, tid) EXCEPT
                    !.op = "save", !.tid = tid, !.ops = client.ops + 1,
                    !.linked[tid] = SaveShares, !.removed = FALSE,
                    !.prevKeys = DOMAIN Get(_store, tid, EmptyDict)]
    /\ UNCHANGED <<graphVars, runVars, now, last, retry, moduleVars>>

\* got = await checkpointer.load(tid)
ClientLoad(tid) ==
    /\ client.ops < MaxOps
    /\ LET ld == CpLoad(Cp, tid, now)
           c == IF tid \in DOMAIN ld.cp.store THEN client ELSE Detach(client, tid)
       IN /\ _store' = ld.cp.store
          /\ _timestamps' = ld.cp.timestamps
          /\ client' = [c EXCEPT
                          !.op = "load", !.tid = tid, !.ops = client.ops + 1,
                          !.found = ld.found, !.holds = ld.found,
                          !.removed = (DOMAIN ld.cp.store # DOMAIN _store),
                          !.got = ld.value, !.returned = ld.value,
                          !.alias = IF ld.found /\ LoadShares = "all" THEN tid ELSE None]
    /\ UNCHANGED <<graphVars, runVars, now, last, retry, moduleVars>>

\* await checkpointer.exists(tid)
ClientExists(tid) ==
    /\ client.ops < MaxOps
    /\ LET ld == CpLoad(Cp, tid, now)
           c == IF tid \in DOMAIN ld.cp.store THEN client ELSE Detach(client, tid)
       IN /\ _store' = ld.cp.store
          /\ _timestamps' = ld.cp.timestamps
          /\ client' = [c EXCEPT
                          !.op = "exists", !.tid = tid, !.ops = client.ops + 1,
                          !.found = CpExists(Cp, tid, now),
                          !.removed = (DOMAIN ld.cp.store # DOMAIN _store)]
    /\ UNCHANGED <<graphVars, runVars, now, last, retry, moduleVars>>

\* await checkpointer.delete(tid)
ClientDelete(tid) ==
    /\ client.ops < MaxOps
    /\ LET cp1 == CpDelete(Cp, tid) IN
       /\ _store' = cp1.store
       /\ _timestamps' = cp1.timestamps
    /\ client' = [Detach(client, tid) EXCEPT
                    !.op = "delete", !.tid = tid, !.ops = client.ops + 1,
                    !.removed = (tid \in DOMAIN _store)]
    /\ UNCHANGED <<graphVars, runVars, now, last, retry, moduleVars>>

\* the caller mutates its state dict in place
MutateLive(m) ==
    /\ client.ops < MaxOps
    /\ Mutate(client.live, m) # client.live
    /\ client' = [client EXCEPT !.op = "mutate_live", !.ops = client.ops + 1,
                                !.removed = FALSE,
                                !.live = Mutate(client.live, m)]
    /\ _store' = [t \in DOMAIN _store |->
                    IF Propagates(client.linked[t], m)
                    THEN Mutate(_store[t], m) ELSE _store[t]]
    /\ UNCHANGED <<graphVars, runVars, _timestamps, now, last, retry, moduleVars>>

\* the caller mutates the dict it got from load in place
MutateLoaded(m) ==
    /\ client.ops < MaxOps
    /\ client.holds
    /\ Mutate(client.got, m) # client.got
    /\ client' = [client EXCEPT !.op = "mutate_loaded", !.ops = client.ops + 1,
                                !.removed = FALSE,
                                !.got = Mutate(client.got, m)]
    /\ _store' = IF client.alias # None
                 THEN Put(_store, client.alias, Mutate(client.got, m))
                 ELSE _store
    /\ UNCHANGED <<graphVars, runVars, _timestamps, now, last, retry, moduleVars>>

\* time passes; the clock only matters once a timestamp is stored
Elapse ==
    /\ DOMAIN _timestamps # {}
    /\ now < MaxTime
    /\ now' = now + 1
    /\ client' = [client EXCEPT !.op = "elapse", !.removed = FALSE]
    /\ UNCHANGED <<graphVars, runVars, cpVars, last, retry, moduleVars>>

StoreNext ==
    \/ \E t \in ClientThreadIds : ClientSave(t)
    \/ \E t \in ClientThreadIds : ClientLoad(t)
    \/ \E t \in ClientThreadIds : ClientExists(t)
    \/ \E t \in ClientThreadIds : ClientDelete(t)
    \/ \E m \in Mutations : MutateLive(m)
    \/ \E m \in Mutations : MutateLoaded(m)
    \/ Elapse

StoreSpec == StoreInit /\ [][StoreNext]_vars

----------------------------------------------------------------------------
(* Properties of the MemoryCheckpointer *)

\* the keys of a dict whose values json.dumps accepts
SerializableKeys(dict) == {k \in DOMAIN dict : k \in IntKeys \/ dict[k] # Obj}

\* the dict restricted to those keys, values as they are
Restricted(dict) == [k \in SerializableKeys(dict) |-> dict[k]]

\* the last call was save(tid, live) and load(tid) is called right after it
LoadAfterSave == CpLoad(Cp, client.tid, now)

\* C15 as stated: after save(tid, s) an immediate load(tid) yields exactly s
\* restricted to its serializable top-level keys.
C15_Original ==
    client.op = "save" =>
        LoadAfterSave.found /\ LoadAfterSave.value = Restricted(client.live)

\* C15, amended: after save(tid, s) an immediate load(tid) finds a dict whose
\* keys are exactly the top-level keys of s with a serializable value, whatever
\* was stored for tid before, and whose values are the JSON images of the
\* values of s: equal to them except that a tuple comes back as a list.
C15_RoundTrip ==
    client.op = "save" =>
        /\ LoadAfterSave.found
        /\ DOMAIN LoadAfterSave.value = SerializableKeys(client.live)
        /\ \A k \in DOMAIN LoadAfterSave.value :
              LoadAfterSave.value[k] = JsonImage(k, client.live[k])
        /\ (\A k \in DOMAIN client.live : client.live[k] # Tup) =>
              LoadAfterSave.value = Restricted(client.live)

C15_Witness ==
    /\ client.op = "save"
    /\ "key" \in client.prevKeys /\ "key" \notin DOMAIN _store[client.tid]
    /\ "handle" \in DOMAIN client.live /\ "handle" \notin DOMAIN _store[client.tid]
    /\ Get(client.live, "pair", None) = Tup
    /\ Get(_store[client.tid], "pair", None) = Lst

\* an overwrite by a state without tuples: the round trip is exact
C15_ExactOverwrite ==
    /\ client.op = "save"
    /\ "key" \in client.prevKeys /\ "key" \notin DOMAIN _store[client.tid]
    /\ "pair" \notin DOMAIN client.live
    /\ _store[client.tid] = Restricted(client.live)

\* C16: after save(tid, s), an in-place mutation of the caller's state s
\* (a key added, removed or changed, or a nested list appended to) leaves
\* every stored snapshot, and so the value of every later load, unchanged.
C16_SaveIsolation ==
    [][client'.op = "mutate_live" =>
          /\ UNCHANGED cpVars
          /\ \A t \in ClientThreadIds : CpLoad(Cp, t, now)' = CpLoad(Cp, t, now)]_vars

C16_Witness ==
    /\ client.op = "mutate_live"
    /\ "t1" \in DOMAIN _store
    /\ Get(_store["t1"], "key", None) = "original"
    /\ Get(client.live, "key", None) = "mutated"
    /\ Get(_store["t1"], "items", None) = Lst
    /\ Get(client.live, "items", None) = Lst3
    /\ CpLoad(Cp, "t1", now).found

\* C17 as stated: an in-place mutation of a value returned by load does not
\* change what a subsequent load returns.
C17_Original ==
    [][client'.op = "mutate_loaded" =>
          \A t \in ClientThreadIds : CpLoad(Cp, t, now)' = CpLoad(Cp, t, now)]_vars

\* C17 as stated, second half: two loads of a thread id with no save, delete
\* or expiry in between return equal values, whatever the caller did with
\* the first.
C17_TwoLoads ==
    [][ ( /\ client.op \in {"load", "mutate_loaded"} /\ client.found
          /\ client'.op = "load" /\ client'.found
          /\ client'.tid = client.alias )
        => client'.returned = client.returned]_vars

\* the stored snapshot changed under a mutation of the loaded value
C17_StoreMutated ==
    /\ client.op = "mutate_loaded"
    /\ client.alias = "t1"
    /\ Get(_store["t1"], "key", None) = "mutated"
    /\ Get(client.live, "key", None) = "original"

\* C18: a save records the time of the save; a load (or exists) of a thread id
\* more than the time-to-live after its most recent save returns not found and
\* removes the snapshot and the timestamp, a load up to then returns the
\* snapshot and removes nothing; the passage of time alone removes nothing,
\* and a new save makes the entry loadable again.
C18_Expiry ==
    /\ [](client.op = "save" =>
            /\ _timestamps[client.tid] = now
            /\ CpLoad(Cp, client.tid, now).found
            /\ CpExists(Cp, client.tid, now))
    /\ [][\A t \in ClientThreadIds :
            (client'.op \in {"load", "exists"} /\ client'.tid = t /\ t \in DOMAIN _store) =>
               IF now - _timestamps[t] > Ttl
               THEN /\ ~client'.found
                    /\ t \notin DOMAIN _store' /\ t \notin DOMAIN _timestamps'
                    /\ ~CpExists(Cp, t, now)'
               ELSE /\ client'.found
                    /\ client'.op = "load" => client'.returned = _store[t]
                    /\ UNCHANGED cpVars]_vars
    /\ [][now' # now => UNCHANGED cpVars]_vars

C18_Witness ==
    /\ client.op = "load"
    /\ client.removed /\ ~client.found
    /\ client.tid \notin DOMAIN _store
    /\ now = Ttl + 1

\* an entry older than the time-to-live that no load has touched is still stored
C18_StaleEntryKept ==
    /\ "t1" \in DOMAIN _store
    /\ now - _timestamps["t1"] > Ttl

\* a save over a stale entry makes it loadable again
C18_Restarted ==
    /\ client.op = "load" /\ client.found
    /\ "key" \in client.prevKeys
    /\ now > Ttl
    /\ _timestamps[client.tid] = now

\* the entry of thread id u is the same before and after the step
SameEntry(u) ==
    /\ (u \in DOMAIN _store') = (u \in DOMAIN _store)
    /\ (u \in DOMAIN _timestamps') = (u \in DOMAIN _timestamps)
    /\ u \in DOMAIN _store => _store'[u] = _store[u]
    /\ u \in DOMAIN _timestamps => _timestamps'[u] = _timestamps[u]

\* C19: after delete(tid) the entry of tid is gone, load(tid) returns not
\* found and exists(tid) is false, and it stays so until the next save(tid);
\* delete of an absent thread id changes nothing; save, delete, load and
\* exists for one thread id never change the snapshot or the timestamp stored
\* for another.
C19_Lifecycle ==
    /\ [](client.op = "delete" =>
            /\ client.tid \notin DOMAIN _store
            /\ client.tid \notin DOMAIN _timestamps
            /\ ~CpLoad(Cp, client.tid, now).found
            /\ ~CpExists(Cp, client.tid, now))
    /\ [][\A t \in ClientThreadIds :
            (t \notin DOMAIN _store /\ ~(client'.op = "save" /\ client'.tid = t)) =>
               /\ t \notin DOMAIN _store'
               /\ ~CpLoad(Cp, t, now)'.found]_vars
    /\ [][client'.op = "delete" /\ client'.tid \notin DOMAIN _store => UNCHANGED cpVars]_vars
    /\ [][client'.op \in {"save", "delete", "load", "exists"} =>
            \A u \in ClientThreadIds \ {client'.tid} : SameEntry(u)]_vars

C19_Witness ==
    /\ client.op = "delete"
    /\ client.removed
    /\ client.tid = "t1"
    /\ "t2" \in DOMAIN _store
    /\ "t1" \notin DOMAIN _store

----------------------------------------------------------------------------
(* Resuming with an initial state that carries reserved keys of its own *)

\* initial states in which the caller tries to set the executor's keys
OverrideStates ==
    LET o == Put(Put(Put(Put(Dict1("counter", 0), "thread_id", "t1"),
                         "_current_node", "b"), "_node_status", NodeStatus.PENDING),
                 "handle", Obj)
    IN {o, Put(o, "_error", "caller")}

OverrideGraphs ==
    {[nodes |-> [n \in NodeNames |-> Node(NoPolicy, IF n = "a" THEN fa ELSE "error")],
      edges |-> <<Edge("a", "b"), Edge("b", END)>>, entry_point |-> "a"] :
        fa \in {"error", "skip"}}

OverrideInit == InitWith(OverrideGraphs)

OverrideNext ==
    \/ \E s \in OverrideStates : RunStart(s, TRUE)
    \/ \E o \in OutcomeSeqs : RunStep(o)
    \/ RunUnknownNode
    \/ RunReturn
    \/ \E t \in ThreadIds, s \in CallerSnapshots : Save(t, s)

OverrideSpec == OverrideInit /\ [][OverrideNext]_vars

\* C20: when a run resumes from a snapshot, its starting state has the keys of
\* the caller's initial state and of the snapshot; every key of the snapshot
\* has the snapshot's value, also where the initial state gives another value
\* for it (_current_node, _error, _node_status, counter), every key that only
\* the initial state has keeps the initial state's value, and the run starts
\* at the _current_node of that starting state.
C20_MergePrecedence ==
    [][\A s \in OverrideStates :
          (RunStart(s, TRUE) /\ last'.resumed) =>
             LET snapshot == _store[s["thread_id"]] IN
             /\ DOMAIN state' = DOMAIN s \cup DOMAIN snapshot
             /\ \A k \in DOMAIN snapshot : state'[k] = snapshot[k]
             /\ \A k \in DOMAIN s \ DOMAIN snapshot : state'[k] = s[k]
             /\ current_node' = state'["_current_node"]
             /\ "_current_node" \in DOMAIN snapshot =>
                    current_node' = snapshot["_current_node"]]_vars

C20_Witness ==
    /\ last.op = "start" /\ last.resumed
    /\ state["_current_node"] = "a" /\ current_node = "a"
    /\ state["_node_status"] = NodeStatus.FAILED
    /\ state["_error"] = ValueErr.msg
    /\ state["counter"] = 0
    /\ state["handle"] = Obj

\* a snapshot without _current_node: the caller's own _current_node is kept
\* and the resumed run starts there
C20_CallerNodeKept ==
    /\ last.op = "start" /\ last.resumed
    /\ "_current_node" \notin DOMAIN _store[thread_id]
    /\ current_node = "b"

----------------------------------------------------------------------------
(* SubgraphExecutor.execute                                                *)
(*                                                                         *)
(* An optional argument is a sequence: empty for None, one element for a   *)
(* given value.  The records execute returns are dicts: a success record   *)
(* has the keys success and result, a failure record success and error.    *)

NotGiven == <<>>
Given(v) == <<v>>

\* the elements of a list
Elems(l) == {l[i] : i \in DOMAIN l}

\* truth value of an optional dict / an optional list
TruthyDict(d) == Len(d) = 1 /\ DOMAIN d[1] # {}
TruthyList(l) == Len(l) = 1 /\ Len(l[1]) > 0

Substate_AllParent(initial_state, parent_state, inherit_keys) ==
    IF TruthyDict(parent_state) /\ TruthyList(inherit_keys)
    THEN Merge(initial_state, parent_state[1])
    ELSE initial_state

\* substate after the inherit loop
Substate(initial_state, parent_state, inherit_keys) ==
    IF TruthyDict(parent_state) /\ TruthyList(inherit_keys)
    THEN LET keys == Elems(inherit_keys[1]) \cap DOMAIN parent_state[1]
         IN Merge(initial_state, [k \in keys |-> parent_state[1][k]])
    ELSE initial_state

\* {k: result.get(k) for k in return_keys if k in result}
Filtered(result, return_keys) ==
    [k \in Elems(return_keys) \cap DOMAIN result |-> Get(result, k, None)]

\* what execute returns after a nested run that returned result
SuccessRecord(result, return_keys) ==
    [success |-> TRUE,
     result |-> IF TruthyList(return_keys) THEN Filtered(result, return_keys[1])
                ELSE result]

\* what execute returns after a nested run that raised e
FailureRecord(e) == [success |-> FALSE, error |-> e.msg]

Caught_ValueErrorOnly(e) == e.type = "ValueError"

\* except Exception: every exception a run can raise is an Exception
Caught(e) == TRUE

\* the executor wraps one of these graphs
ExecutorGraphs ==
    {[nodes |-> [n \in NodeNames |-> IF n = "a" THEN Node(pa, fa)
                                     ELSE Node(NoPolicy, "error")],
      edges |-> <<Edge("a", "b"), Edge("b", END)>>, entry_point |-> "a"] :
        pa \in {NoPolicy, Policy(MaxAttempts, AllTypes)}, fa \in {"error", "skip"}}
    \cup
    {[nodes |-> DefaultNodes, edges |-> <<Edge("a", Ghost)>>, entry_point |-> "a"],
     [nodes |-> DefaultNodes, edges |-> <<Edge("a", END)>>, entry_point |-> None]}

ExecutorInitialStates ==
    {Dict1("counter", 0), Put(Dict1("counter", 1), "value", "5")}

ParentStates ==
    {NotGiven, Given(EmptyDict),
     Given(Put(Put(Dict1("counter", 2), "context", "shared"), "api_key", "secret"))}

InheritKeys ==
    {NotGiven, Given(<<>>), Given(<<"context">>), Given(<<"context", "counter", "missing">>)}

ReturnKeys ==
    {NotGiven, Given(<<>>), Given(<<"counter">>), Given(<<"value", "_error", "missing">>)}

\* SubgraphExecutor(graph) has been constructed and the arguments of one
\* execute call are chosen
ExecutorInit ==
    /\ Built(ExecutorGraphs)
    /\ retry = RetryIdle
    /\ client = ClientIdle
    /\ gather = Unused /\ stack = Unused /\ loop = Unused /\ builder = Unused
    /\ validation = Unused
    /\ \E i \in ExecutorInitialStates, p \in ParentStates, k \in InheritKeys,
          r \in ReturnKeys :
         executor = [pc |-> "called", initial_state |-> i, parent_state |-> p,
                     inherit_keys |-> k, return_keys |-> r, record |-> EmptyDict]

\* execute up to the first test of the nested run's while loop
ExecuteRun ==
    /\ executor.pc = "called"
    /\ runs = 0
    /\ RunStart(Substate(executor.initial_state, executor.parent_state,
                         executor.inherit_keys), FALSE)

\* the nested run has ended: execute returns a record, or the exception escapes
ExecuteReturn ==
    /\ executor.pc = "called"
    /\ pc \in {"returned", "raised"}
    /\ executor' =
         IF pc = "returned"
         THEN [executor EXCEPT !.pc = "returned",
                               !.record = SuccessRecord(state, executor.return_keys)]
         ELSE IF Caught(raised)
         THEN [executor EXCEPT !.pc = "returned", !.record = FailureRecord(raised)]
         ELSE [executor EXCEPT !.pc = "raised"]
    /\ UNCHANGED <<graphVars, runVars, cpVars, now, last, retry, client,
                   gather, stack, loop, builder, validation>>

ExecutorNext ==
    \/ ExecuteRun
    \/ \E o \in OutcomeSeqs : executor.pc = "called" /\ RunStep(o)
    \/ executor.pc = "called" /\ RunUnknownNode
    \/ executor.pc = "called" /\ RunReturn
    \/ ExecuteReturn

ExecutorSpec == ExecutorInit /\ [][ExecutorNext]_vars

\* C21: execute never lets a failure of the nested run escape: when the nested
\* run raised, execute returns the record {success: False, error: str(e)};
\* when it returned, execute returns a record whose success is True
C21_Containment ==
    /\ executor.pc # "raised"
    /\ executor.pc = "returned" =>
         /\ pc = "raised" => executor.record = FailureRecord(raised)
         /\ pc = "returned" =>
              /\ DOMAIN executor.record = {"success", "result"}
              /\ executor.record.success = TRUE

\* the nested run exhausted its retries on a timeout and execute returned
C21_Witness ==
    /\ executor.pc = "returned"
    /\ pc = "raised"
    /\ raised = TimeoutErr
    /\ last.calls = MaxAttempts
    /\ executor.record.success = FALSE
    /\ executor.record.error = TimeoutErr.msg

\* the keys ks (an optional list) names, none when it is not given
KeysOf(ks) == IF Len(ks) = 1 THEN Elems(ks[1]) ELSE {}

\* the key set of an optional dict, empty when it is not given
DomainOf(d) == IF Len(d) = 1 THEN DOMAIN d[1] ELSE {}

\* the nested run has just been handed its state
Handed == executor.pc = "called" /\ pc = "running" /\ last.op = "start"

\* C22: the state handed to the nested run has the keys of initial_state plus
\* the keys that are both in inherit_keys and in parent_state; an inherited key
\* has the parent's value, every other key the value of initial_state; nothing
\* is inherited when parent_state or inherit_keys is missing
C22_Inheritance ==
    Handed =>
        LET inherited == KeysOf(executor.inherit_keys) \cap DomainOf(executor.parent_state)
        IN /\ DOMAIN state = DOMAIN executor.initial_state \cup inherited
           /\ \A k \in inherited : state[k] = executor.parent_state[1][k]
           /\ \A k \in DOMAIN state \ inherited : state[k] = executor.initial_state[k]
           /\ (executor.parent_state = NotGiven \/ executor.inherit_keys = NotGiven)
                => state = executor.initial_state

\* a parent key was inherited over the initial state's value, another parent
\* key was withheld
C22_Witness ==
    /\ Handed
    /\ executor.parent_state # NotGiven
    /\ "counter" \in DOMAIN executor.initial_state
    /\ state["counter"] = 2
    /\ executor.initial_state["counter"] # 2
    /\ "api_key" \in DomainOf(executor.parent_state)
    /\ "api_key" \notin DOMAIN state
    /\ "context" \in DOMAIN state

\* execute returned a success record
Succeeded == executor.pc = "returned" /\ pc = "returned"

\* C23 as stated: on success, when return_keys is given (any list, the empty
\* list included) the result holds exactly the keys of return_keys that exist
\* in the final nested state, with their final values; when return_keys is not
\* given the result is the full final state
C23_Original ==
    Succeeded =>
        IF executor.return_keys # NotGiven
        THEN /\ DOMAIN executor.record.result
                  = KeysOf(executor.return_keys) \cap DOMAIN state
             /\ \A k \in DOMAIN executor.record.result :
                  executor.record.result[k] = state[k]
        ELSE executor.record.result = state

\* C23 as built: the result is filtered when return_keys is a non-empty list,
\* and is the full final state when it is None or the empty list
C23_AsBuilt ==
    Succeeded =>
        IF TruthyList(executor.return_keys)
        THEN /\ DOMAIN executor.record.result
                  = KeysOf(executor.return_keys) \cap DOMAIN state
             /\ \A k \in DOMAIN executor.record.result :
                  executor.record.result[k] = state[k]
        ELSE executor.record.result = state

\* return_keys is the empty list and the result holds the reserved keys
C23_EmptyListReturnsAll ==
    /\ Succeeded
    /\ executor.return_keys = Given(<<>>)
    /\ "_node_status" \in DOMAIN executor.record.result

----------------------------------------------------------------------------
(* SubgraphExecutor.execute_parallel: concurrent runs of one graph          *)
(*                                                                         *)
(* Each task is one execute call with its own run() locals; the tasks      *)
(* share the graph and the executor's checkpointer.  A task gives up       *)
(* control only where its handler awaits, so a loop iteration together     *)
(* with its save is one step; the steps of the tasks interleave freely.    *)
(* Task i has a handler script: script[i][n] is what the handler of node   *)
(* n does whenever task i invokes it.                                      *)

MaxTasks == 2           \* length of the list given to execute_parallel

\* run(initial_state, checkpointer) up to the first test of the while loop,
\* as a function of the checkpointer contents cp
RunStarted(initial_state, use_cp, cp, t) ==
    IF entry_point = None
    THEN [pc |-> "raised", raised |-> EntryErr, state |-> EmptyDict,
          current_node |-> None, thread_id |-> None, cp |-> cp, resumed |-> FALSE]
    ELSE LET tid == Get(initial_state, "thread_id", None)
             loads == use_cp /\ Truthy(tid)
             ld == CpLoad(cp, tid, t)
             resume == loads /\ ld.found /\ DOMAIN ld.value # {}
             s0 == IF resume THEN Merge(initial_state, ld.value) ELSE initial_state
         IN [pc |-> "running", raised |-> NoExc, state |-> s0,
             current_node |-> IF resume THEN ResumeNode(s0, entry_point)
                              ELSE entry_point,
             thread_id |-> tid, cp |-> IF loads THEN ld.cp ELSE cp,
             resumed |-> resume]

\* the while test of run
Looping(r) == r.pc = "running" /\ Truthy(r.current_node) /\ r.current_node # END

\* one iteration of the while loop of run on the locals r
RunStepped(r, use_cp, cp, outcomes, t) ==
    IF r.current_node \notin DOMAIN nodes
    THEN [r EXCEPT !.pc = "raised", !.raised = UnknownNodeErr(r.current_node),
                   !.cp = cp]
    ELSE LET node == nodes[r.current_node]
             s0 == Put(Put(r.state, "_current_node", r.current_node),
                       "_node_status", NodeStatus.RUNNING)
             res == ExecuteNode(node, s0, outcomes)
             branch == Branch(res.exc, node.on_failure)
             s1 == StateAfter(res, branch)
         IN [r EXCEPT !.pc = IF branch = "error" THEN "raised" ELSE "running",
                      !.raised = IF branch = "error" THEN res.exc ELSE r.raised,
                      !.state = s1,
                      !.current_node = NextNode(edges, node, r.current_node, s1, branch),
                      !.cp = CpAfter(cp, use_cp, r.thread_id, s1, branch, t)]

\* whether that iteration reaches checkpointer.save
StepSaves(r, use_cp, outcomes) ==
    /\ r.current_node \in DOMAIN nodes
    /\ use_cp /\ Truthy(r.thread_id)
    /\ LET node == nodes[r.current_node]
           s0 == Put(Put(r.state, "_current_node", r.current_node),
                     "_node_status", NodeStatus.RUNNING)
       IN SavesIn(Branch(ExecuteNode(node, s0, outcomes).exc, node.on_failure))

\* the record execute makes of a run that has ended
RecordOf(r) ==
    IF r.pc = "raised" THEN FailureRecord(r.raised)
    ELSE SuccessRecord(r.state, NotGiven)

\* what the handlers of a task do: script[n] on every invocation
Scripts == {[n \in NodeNames |-> IF n = f THEN ValueErr ELSE Ok] : f \in NodeNames \cup {None}}
OutcomesOf(script, n) == [k \in 1..MaxAttempts |-> Get(script, n, Ok)]

GatherByCompletion(tasks, order) == [k \in DOMAIN order |-> RecordOf(tasks[order[k]])]

\* await asyncio.gather(*tasks): the results in the order of the awaitables
Gathered(tasks, order) == [i \in DOMAIN tasks |-> RecordOf(tasks[i])]

\* the graph of the tests: two nodes in a row, default failure policy
GatherGraphs ==
    {[nodes |-> DefaultNodes, edges |-> <<Edge("a", "b"), Edge("b", END)>>,
      entry_point |-> "a"]}

GatherStates ==
    {Put(Put(Dict1("counter", 0), "value", "x"), "thread_id", "t1"),
     Put(Put(Dict1("counter", 1), "y", "only"), "thread_id", "t1"),
     Put(Dict1("counter", 0), "thread_id", "t2")}

StateLists == UNION {[1..n -> GatherStates] : n \in 0..MaxTasks}

\* a task that has not started: exec is the position of its execute call
\* ("created", "awaiting" its run, "returned", "raised"), the rest are the
\* locals of its run
Task(s, script) ==
    [exec |-> "created", pc |-> "idle", initial_state |-> s, script |-> script,
     raised |-> NoExc, state |-> EmptyDict, current_node |-> None,
     thread_id |-> None, cp |-> [store |-> EmptyDict, timestamps |-> EmptyDict],
     resumed |-> FALSE, saves |-> 0]

\* the last save under each thread id: the task that made it and the state it
\* passed (task 0: nobody has saved)
NoSave == [t \in ClientThreadIds |-> [task |-> 0, state |-> EmptyDict]]

\* execute_parallel(initial_states) has created one execute coroutine per
\* state, in the order of the list
GatherInit ==
    /\ Built(GatherGraphs)
    /\ retry = RetryIdle
    /\ client = ClientIdle
    /\ executor = Unused /\ stack = Unused /\ loop = Unused /\ builder = Unused
    /\ validation = Unused
    /\ \E l \in StateLists, c \in BOOLEAN :
       \E sc \in [DOMAIN l -> Scripts] :
         gather = [pc |-> "gathering", initial_states |-> l, checkpointer |-> c,
                   tasks |-> [i \in DOMAIN l |-> Task(l[i], sc[i])],
                   order |-> <<>>, results |-> <<>>, lastSave |-> NoSave]

\* the rest of the model does not move while the tasks run
GatherFrame ==
    UNCHANGED <<graphVars, runVars, now, last, retry, client,
                executor, stack, loop, builder, validation>>

\* task i enters execute and run, up to the first test of the while loop
TaskStart(i) ==
    /\ gather.pc = "gathering"
    /\ gather.tasks[i].exec = "created"
    /\ LET t == gather.tasks[i]
           r == RunStarted(Substate(t.initial_state, NotGiven, NotGiven),
                           gather.checkpointer, Cp, now)
       IN /\ gather' = [gather EXCEPT !.tasks[i] =
                          [t EXCEPT !.exec = "awaiting", !.pc = r.pc, !.raised = r.raised, !.state = r.state,
                                    !.current_node = r.current_node,
                                    !.thread_id = r.thread_id, !.resumed = r.resumed]]
          /\ _store' = r.cp.store
          /\ _timestamps' = r.cp.timestamps
    /\ GatherFrame

\* task i runs one iteration of its while loop
TaskStep(i) ==
    /\ gather.pc = "gathering"
    /\ Looping(gather.tasks[i])
    /\ LET t == gather.tasks[i]
           o == OutcomesOf(t.script, t.current_node)
           r == RunStepped(t, gather.checkpointer, Cp, o, now)
           saves == StepSaves(t, gather.checkpointer, o)
       IN /\ gather' = [gather EXCEPT
                          !.tasks[i] = [r EXCEPT !.cp = t.cp,
                                                 !.saves = IF saves THEN @ + 1 ELSE @],
                          !.lastSave = IF saves
                                       THEN [@ EXCEPT ![t.thread_id] =
                                               [task |-> i, state |-> r.state]]
                                       ELSE @]
          /\ _store' = r.cp.store
          /\ _timestamps' = r.cp.timestamps
    /\ GatherFrame

\* the run of task i has ended and its execute returns its record
TaskDone(i) ==
    /\ gather.pc = "gathering"
    /\ gather.tasks[i].exec = "awaiting"
    /\ ~Looping(gather.tasks[i])
    /\ gather' = [gather EXCEPT
                    !.tasks[i].pc = IF @ = "running" THEN "returned" ELSE @,
                    !.tasks[i].exec = IF gather.tasks[i].pc = "raised"
                                         /\ ~Caught(gather.tasks[i].raised)
                                      THEN "raised" ELSE "returned",
                    !.order = Append(@, i)]
    /\ UNCHANGED cpVars
    /\ GatherFrame

\* every task is done: gather returns the list of records, or raises what
\* escaped from a task
GatherReturn ==
    /\ gather.pc = "gathering"
    /\ \A i \in DOMAIN gather.tasks : gather.tasks[i].exec \in {"returned", "raised"}
    /\ gather' =
         IF \E i \in DOMAIN gather.tasks : gather.tasks[i].exec = "raised"
         THEN [gather EXCEPT !.pc = "raised"]
         ELSE [gather EXCEPT !.pc = "returned",
                             !.results = Gathered(gather.tasks, gather.order)]
    /\ UNCHANGED cpVars
    /\ GatherFrame

GatherNext ==
    \/ \E i \in DOMAIN gather.tasks : TaskStart(i)
    \/ \E i \in DOMAIN gather.tasks : TaskStep(i)
    \/ \E i \in DOMAIN gather.tasks : TaskDone(i)
    \/ GatherReturn

GatherSpec == GatherInit /\ [][GatherNext]_vars

\* the run of task i shares its checkpoint thread with no other task
OwnThread(i) ==
    \/ ~gather.checkpointer
    \/ \A j \in DOMAIN gather.initial_states \ {i} :
         Get(gather.initial_states[j], "thread_id", None)
             # Get(gather.initial_states[i], "thread_id", None)

\* the iterations a run needs in the graphs of GatherGraphs, resumed or not
AloneFuel == 2 * Cardinality(NodeNames)

RECURSIVE RunAlone(_, _, _)
RunAlone(r, script, fuel) ==
    IF ~Looping(r) \/ fuel = 0 THEN r
    ELSE RunAlone(RunStepped(r, FALSE, r.cp, OutcomesOf(script, r.current_node), 0),
                  script, fuel - 1)

\* the record of execute(s) when nothing else runs
AloneRecord(s, script) ==
    RecordOf(RunAlone(RunStarted(s, FALSE, [store |-> EmptyDict, timestamps |-> EmptyDict], 0),
                      script, AloneFuel))

\* C24: execute_parallel never raises; it returns one record per input state,
\* the i-th being the record of the run started from the i-th state: a failure
\* record exactly when that run raised, and, for a run that shares its
\* checkpoint thread with no sibling, the record that run yields alone,
\* whatever the interleaving and whatever its siblings did
C24_Parallel ==
    /\ gather.pc # "raised"
    /\ gather.pc = "returned" =>
         /\ Len(gather.results) = Len(gather.initial_states)
         /\ \A i \in DOMAIN gather.initial_states :
              /\ gather.tasks[i].initial_state = gather.initial_states[i]
              /\ gather.results[i] = RecordOf(gather.tasks[i])
              /\ gather.results[i].success = (gather.tasks[i].pc # "raised")
              /\ OwnThread(i) =>
                   gather.results[i]
                       = AloneRecord(gather.initial_states[i], gather.tasks[i].script)

\* two runs without a shared thread: the second finished first and succeeded,
\* the first failed; the failure record is at position 1
C24_Witness ==
    /\ gather.pc = "returned"
    /\ Len(gather.results) = 2
    /\ OwnThread(1)
    /\ gather.order = <<2, 1>>
    /\ gather.results[1] = FailureRecord(ValueErr)
    /\ gather.results[2].success = TRUE
    /\ gather.results[2].result["_node_status"] = NodeStatus.SUCCESS

\* with one checkpoint thread shared by two runs, a record differs from the
\* one its run yields alone
C24_SharedThreadDiffers ==
    /\ gather.pc = "returned"
    /\ \E i \in DOMAIN gather.results :
         /\ ~OwnThread(i)
         /\ gather.results[i]
                # AloneRecord(gather.initial_states[i], gather.tasks[i].script)

\* the snapshot save stores for the state s
SnapshotOf(s) == JsonRoundTrip(Serialize(s))

\* every thread id holds the snapshot of the last save made under it
LastWriteWins ==
    \A t \in DOMAIN _store :
        /\ gather.lastSave[t].task # 0
        /\ _store[t] = SnapshotOf(gather.lastSave[t].state)

\* no run raised anything but the failure of its own handler
NoStoreError ==
    \A i \in DOMAIN gather.tasks :
        gather.tasks[i].pc = "raised" =>
            /\ gather.tasks[i].raised = ValueErr
            /\ \E n \in NodeNames : gather.tasks[i].script[n] = ValueErr

\* a run that starts when a snapshot is stored under its thread id starts from
\* its initial state overlaid with that snapshot, at the snapshot's node
ResumesFromOther ==
    \A i \in DOMAIN gather.tasks :
        LET tid == Get(gather.tasks[i].initial_state, "thread_id", None) IN
        (TaskStart(i) /\ gather.checkpointer /\ tid \in DOMAIN _store) =>
            /\ gather.lastSave[tid].task # i
            /\ gather'.tasks[i].resumed
            /\ gather'.tasks[i].state = Merge(gather.tasks[i].initial_state, _store[tid])
            /\ gather'.tasks[i].current_node = _store[tid]["_current_node"]

\* C25: runs that share a checkpointer and a thread id interleave without any
\* error from the store; at every moment, and so after both finish, the stored
\* snapshot is exactly the snapshot of the state passed to the last save (all
\* of its keys and no key of an earlier save that it lacks); a run that loads
\* after another run's save resumes from that snapshot
C25_LastWriteWins ==
    /\ [](gather.checkpointer => LastWriteWins /\ NoStoreError)
    /\ [][ResumesFromOther]_vars

\* two runs under thread t1 have finished: the second resumed from the first
\* one's snapshot, both saved, and the first made the last save
C25_Witness ==
    /\ gather.pc = "returned"
    /\ gather.checkpointer
    /\ Len(gather.tasks) = 2
    /\ \A i \in {1, 2} : gather.tasks[i].thread_id = "t1" /\ gather.tasks[i].saves > 0
    /\ gather.tasks[2].resumed
    /\ ~gather.tasks[1].resumed
    /\ gather.lastSave["t1"].task = 1
    /\ _store["t1"] = SnapshotOf(gather.tasks[1].state)
    /\ _store["t1"] # SnapshotOf(gather.tasks[2].state)

----------------------------------------------------------------------------
(* MiddlewareStack                                                         *)
(*                                                                         *)
(* A state or a tool result is the sequence of marks the hooks have left   *)
(* on it: each hook appends its own mark to what it receives.  The result  *)
(* of a pre_tool_call hook is an optional dict.                            *)

MaxStack == 3           \* middlewares registered in one stack

MiddlewareNames == {"m1", "m2"}
Chains == {"pre_invoke", "post_invoke", "pre_tool_call", "post_tool_call"}

\* the hooks of middleware m
PreInvoke(m, s) == Append(s, "pre_" \o m)
PostInvoke(m, s) == Append(s, "post_" \o m)
PostToolCall(m, result) == Append(result, "tool_" \o m)

\* what a pre_tool_call hook of m can return: None, an empty dict, an
\* interrupt signal
Interrupt(m) == Given([__interrupt__ |-> "True", by |-> m])
HookResults(m) == {NotGiven, Given(EmptyDict), Interrupt(m)}

Reversed_Same(l) == l

\* reversed(l)
Reversed(l) == [i \in DOMAIN l |-> l[Len(l) + 1 - i]]

Interrupts_NonEmpty(result) == TruthyDict(result)

\* result is not None
Interrupts(result) == result # NotGiven

\* the middlewares a chain iterates over, in iteration order
Iteration(chain, middlewares) ==
    IF chain \in {"post_invoke", "post_tool_call"} THEN Reversed(middlewares)
    ELSE middlewares

\* MiddlewareStack()
StackIdle ==
    [pc |-> "idle", _middlewares |-> <<>>, chain |-> "none", input |-> <<>>,
     rest |-> <<>>, value |-> <<>>, calls |-> <<>>, returned |-> <<>>]

StackInit ==
    /\ Built({NoGraph})
    /\ retry = RetryIdle
    /\ client = ClientIdle
    /\ executor = Unused /\ gather = Unused /\ loop = Unused /\ builder = Unused
    /\ validation = Unused
    /\ stack = StackIdle

StackFrame ==
    UNCHANGED <<graphVars, runVars, cpVars, now, last, retry, client,
                executor, gather, loop, builder, validation>>

\* stack.add(m)
StackAdd(m) ==
    /\ stack.pc = "idle"
    /\ Len(stack._middlewares) < MaxStack
    /\ stack' = [stack EXCEPT !._middlewares = Append(@, m)]
    /\ StackFrame

\* apply_<chain>(input) enters its for loop; for a tool call chain input is
\* the tool result (post) and unused (pre)
ApplyStart(chain, input) ==
    /\ stack.pc = "idle"
    /\ stack' = [stack EXCEPT !.pc = "for", !.chain = chain, !.input = input,
                              !.rest = Iteration(chain, stack._middlewares),
                              !.value = input]
    /\ StackFrame

\* one iteration of a chaining loop: state = await mw.hook(state)
HookCall ==
    /\ stack.pc = "for"
    /\ stack.chain # "pre_tool_call"
    /\ stack.rest # <<>>
    /\ LET mw == Head(stack.rest)
           out == IF stack.chain = "pre_invoke" THEN PreInvoke(mw, stack.value)
                  ELSE IF stack.chain = "post_invoke" THEN PostInvoke(mw, stack.value)
                  ELSE PostToolCall(mw, stack.value)
       IN stack' = [stack EXCEPT !.rest = Tail(@), !.value = out,
                                 !.calls = Append(@, [mw |-> mw, arg |-> stack.value,
                                                      out |-> out])]
    /\ StackFrame

\* one iteration of apply_pre_tool_call: the hook returns result
PreToolCall(result) ==
    /\ stack.pc = "for"
    /\ stack.chain = "pre_tool_call"
    /\ stack.rest # <<>>
    /\ LET mw == Head(stack.rest) IN
       /\ result \in HookResults(mw)
       /\ stack' = IF Interrupts(result)
                   THEN [stack EXCEPT !.pc = "returned", !.returned = result,
                                      !.rest = Tail(@),
                                      !.calls = Append(@, [mw |-> mw, arg |-> stack.value,
                                                           out |-> result])]
                   ELSE [stack EXCEPT !.rest = Tail(@),
                                      !.calls = Append(@, [mw |-> mw, arg |-> stack.value,
                                                           out |-> result])]
    /\ StackFrame

\* the loop is over: return state / return result / return None
ApplyReturn ==
    /\ stack.pc = "for"
    /\ stack.rest = <<>>
    /\ stack' = [stack EXCEPT !.pc = "returned",
                              !.returned = IF stack.chain = "pre_tool_call" THEN NotGiven
                                           ELSE stack.value]
    /\ StackFrame

StackNext ==
    \/ \E m \in MiddlewareNames : StackAdd(m)
    \/ \E c \in Chains, i \in {<<>>, <<"in">>} : ApplyStart(c, i)
    \/ HookCall
    \/ \E m \in MiddlewareNames : \E r \in HookResults(m) : PreToolCall(r)
    \/ ApplyReturn

StackSpec == StackInit /\ [][StackNext]_vars

\* the middlewares whose hook a chain has called, in call order
Called == [i \in DOMAIN stack.calls |-> stack.calls[i].mw]

\* the first n elements of a list
Prefix(l, n) == [i \in 1..n |-> l[i]]

\* the order in which the claim says a chain calls the hooks
OnionOrder ==
    IF stack.chain = "pre_invoke" THEN stack._middlewares
    ELSE [i \in DOMAIN stack._middlewares |->
            stack._middlewares[Len(stack._middlewares) + 1 - i]]

\* C26: with middlewares m1..mn registered in that order, apply_pre_invoke
\* calls the hooks in order m1..mn, apply_post_invoke and apply_post_tool_call
\* in order mn..m1; the hooks called so far are always a prefix of that
\* order, each received the value the previous one returned (the first one
\* the input), and the chain returns after calling every hook once, with the
\* last hook's value, the input when the stack is empty
C26_Onion ==
    stack.chain \in {"pre_invoke", "post_invoke", "post_tool_call"} =>
        /\ Len(stack.calls) <= Len(stack._middlewares)
        /\ Called = Prefix(OnionOrder, Len(stack.calls))
        /\ \A i \in DOMAIN stack.calls :
             stack.calls[i].arg = IF i = 1 THEN stack.input ELSE stack.calls[i - 1].out
        /\ stack.pc = "returned" =>
             /\ Called = OnionOrder
             /\ stack.returned = IF stack.calls = <<>> THEN stack.input
                                 ELSE stack.calls[Len(stack.calls)].out

\* apply_post_invoke returned on a stack of three middlewares, two of them
\* different: the last registered hook ran first
C26_Witness ==
    /\ stack.pc = "returned"
    /\ stack.chain = "post_invoke"
    /\ stack._middlewares = <<"m1", "m2", "m2">>
    /\ stack.returned = <<"in", "post_m2", "post_m2", "post_m1">>

\* the calls of a pre_tool_call chain whose result satisfies test
FirstWhere(test(_)) ==
    {i \in DOMAIN stack.calls :
        /\ test(stack.calls[i].out)
        /\ \A j \in 1..(i - 1) : ~test(stack.calls[j].out)}

\* apply_pre_tool_call calls the hooks in registration order and stops at the
\* first hook whose result satisfies test, returning that result; when no
\* result satisfies test every hook is called and the chain returns None
StopsAtFirst(test(_)) ==
    stack.chain = "pre_tool_call" =>
        /\ Called = Prefix(stack._middlewares, Len(stack.calls))
        /\ \A i \in FirstWhere(test) :
             /\ i = Len(stack.calls)
             /\ stack.pc = "returned"
             /\ stack.returned = stack.calls[i].out
        /\ (stack.pc = "returned" /\ FirstWhere(test) = {}) =>
             /\ Called = stack._middlewares
             /\ stack.returned = NotGiven

\* a hook result other than None
NotNone(result) == result # NotGiven

\* C27 as stated: the first hook that returns a non-empty interrupt signal
\* ends the chain; if every hook returns an empty result all hooks are invoked
\* and the chain returns no interrupt
C27_Original == StopsAtFirst(TruthyDict)

\* C27: apply_pre_tool_call calls the pre_tool_call hooks in registration
\* order; the first hook that returns anything but None, an empty dict
\* included, ends the chain, its result is returned and no later hook is
\* invoked; if every hook returns None all hooks are invoked and the chain
\* returns None
C27_FirstNotNone == StopsAtFirst(NotNone)

\* the second of three hooks interrupted: the third was not invoked
C27_Witness ==
    /\ stack.pc = "returned"
    /\ stack.chain = "pre_tool_call"
    /\ Len(stack._middlewares) = 3
    /\ Len(stack.calls) = 2
    /\ stack.calls[1].out = NotGiven
    /\ stack.returned = Interrupt(stack._middlewares[2])

\* a hook returned an empty dict: the chain ended there and returned it
C27_EmptyDictEndsChain ==
    /\ stack.pc = "returned"
    /\ stack.chain = "pre_tool_call"
    /\ stack.returned = Given(EmptyDict)
    /\ Len(stack.calls) < Len(stack._middlewares)

----------------------------------------------------------------------------
(* PlanningLoop                                                            *)
(*                                                                         *)
(* A member of the TodoStatus enum is its name, its value the lower-case   *)
(* string to_dict writes.  uuid4 ids are distinct: the n-th todo created   *)
(* on a loop gets the n-th id.  result is an optional dict, error a        *)
(* str | None.                                                             *)

MaxTodos == 2           \* todos in a loop at one time
MaxIterations == 2      \* largest max_iterations given to the constructor
MaxCreated == MaxTodos          \* todos created on one loop in a behaviour
DefaultMaxIterations == 10      \* max_iterations: int = 10

TodoStatus == [PENDING |-> "pending", IN_PROGRESS |-> "in_progress",
               COMPLETED |-> "completed", FAILED |-> "failed", SKIPPED |-> "skipped"]

TodoId(n) == "todo_" \o ToString(n)

\* Todo(id, description, metadata=metadata or {})
Todo(id, description, metadata) ==
    [id |-> id, description |-> description, status |-> "PENDING",
     result |-> NotGiven, error |-> None,
     metadata |-> IF TruthyDict(metadata) THEN metadata[1] ELSE EmptyDict]

\* Todo.to_dict
ToDict(t) ==
    [id |-> t.id, description |-> t.description, status |-> TodoStatus[t.status],
     result |-> t.result, error |-> t.error, metadata |-> t.metadata]

StatusOf_Pending(value) == "PENDING"

\* TodoStatus(value): the member with that value
StatusOf(value) == CHOOSE m \in DOMAIN TodoStatus : TodoStatus[m] = value

\* Todo.from_dict, on a dict that has every key
FromDict(data) ==
    [id |-> data.id, description |-> data.description, status |-> StatusOf(data.status),
     result |-> data.result, error |-> data.error, metadata |-> data.metadata]

\* PlanningLoop.to_state
ToState(l) == [i \in DOMAIN l.todos |-> ToDict(l.todos[i])]

FromState_DefaultOnly(st, max_iterations) ==
    [todos |-> [i \in DOMAIN st |-> FromDict(st[i])],
     max_iterations |-> 10, _iteration |-> 0]

\* PlanningLoop.from_state(state, max_iterations)
FromState(st, max_iterations) ==
    [todos |-> [i \in DOMAIN st |-> FromDict(st[i])],
     max_iterations |-> max_iterations, _iteration |-> 0]

\* PlanningLoop.get_todo: the index of the first todo with that id, 0 for None
GetTodo(l, todo_id) ==
    IF \E i \in DOMAIN l.todos : l.todos[i].id = todo_id
    THEN CHOOSE i \in DOMAIN l.todos :
            /\ l.todos[i].id = todo_id
            /\ \A j \in 1..(i - 1) : l.todos[j].id # todo_id
    ELSE 0

AllComplete_CompletedOnly(l) ==
    IF l.todos = <<>> THEN TRUE
    ELSE \A i \in DOMAIN l.todos : l.todos[i].status = "COMPLETED"

\* PlanningLoop.all_complete
AllComplete(l) ==
    IF l.todos = <<>> THEN TRUE
    ELSE \A i \in DOMAIN l.todos :
            l.todos[i].status \in {"COMPLETED", "FAILED", "SKIPPED"}

\* PlanningLoop.any_failed
AnyFailed(l) == \E i \in DOMAIN l.todos : l.todos[i].status = "FAILED"

CanContinue_Greater(l) ==
    IF l._iteration > l.max_iterations THEN FALSE ELSE ~AllComplete(l)

\* PlanningLoop.can_continue
CanContinue(l) ==
    IF l._iteration >= l.max_iterations THEN FALSE ELSE ~AllComplete(l)

Descriptions == {"Task"}
Metadatas == {NotGiven, Given(Dict1("source", "user"))}
Results == {NotGiven, Given(Dict1("x", "1"))}
Errors == {"error"}
Reasons == {None, "", "error"}

\* PlanningLoop(max_iterations)
LoopInit ==
    /\ Built({NoGraph})
    /\ retry = RetryIdle
    /\ client = ClientIdle
    /\ executor = Unused /\ gather = Unused /\ stack = Unused /\ builder = Unused
    /\ validation = Unused
    /\ \E m \in {1, MaxIterations} :
         loop = [todos |-> <<>>, max_iterations |-> m, _iteration |-> 0,
                 created |-> 0]

LoopFrame ==
    UNCHANGED <<graphVars, runVars, cpVars, now, last, retry, client,
                executor, gather, stack, builder, validation>>

\* loop.add_todo(description, metadata)
AddTodo(description, metadata) ==
    /\ Len(loop.todos) < MaxTodos
    /\ loop.created < MaxCreated
    /\ loop' = [loop EXCEPT
                  !.todos = Append(@, Todo(TodoId(loop.created + 1), description, metadata)),
                  !.created = @ + 1]
    /\ LoopFrame

\* loop.set_todos(descriptions)
SetTodos(descriptions) ==
    /\ Len(descriptions) <= MaxTodos
    /\ loop.created + Len(descriptions) <= MaxCreated
    /\ loop' = [loop EXCEPT
                  !.todos = [i \in DOMAIN descriptions |->
                               Todo(TodoId(loop.created + i), descriptions[i], NotGiven)],
                  !.created = @ + Len(descriptions)]
    /\ LoopFrame

\* loop.mark_in_progress(todo_id)
MarkInProgress(todo_id) ==
    /\ LET i == GetTodo(loop, todo_id) IN
       loop' = IF i # 0
               THEN [loop EXCEPT !.todos[i].status = "IN_PROGRESS"]
               ELSE loop
    /\ LoopFrame

\* loop.mark_complete(todo_id, result)
MarkComplete(todo_id, result) ==
    /\ LET i == GetTodo(loop, todo_id) IN
       loop' = IF i # 0
               THEN [loop EXCEPT !.todos[i].status = "COMPLETED",
                                 !.todos[i].result = result]
               ELSE loop
    /\ LoopFrame

\* loop.mark_failed(todo_id, error)
MarkFailed(todo_id, error) ==
    /\ LET i == GetTodo(loop, todo_id) IN
       loop' = IF i # 0
               THEN [loop EXCEPT !.todos[i].status = "FAILED",
                                 !.todos[i].error = error]
               ELSE loop
    /\ LoopFrame

\* loop.mark_skipped(todo_id, reason)
MarkSkipped(todo_id, reason) ==
    /\ LET i == GetTodo(loop, todo_id) IN
       loop' = IF i # 0
               THEN [loop EXCEPT !.todos[i].status = "SKIPPED",
                                 !.todos[i].error = IF Truthy(reason) THEN reason ELSE @]
               ELSE loop
    /\ LoopFrame

\* loop.increment_iteration()
IncrementIteration ==
    /\ loop._iteration < MaxIterations
    /\ loop' = [loop EXCEPT !._iteration = @ + 1]
    /\ LoopFrame

\* loop = PlanningLoop.from_state(loop.to_state())
Restore ==
    /\ LET l == FromState(ToState(loop), DefaultMaxIterations) IN
       loop' = [loop EXCEPT !.todos = l.todos, !.max_iterations = l.max_iterations,
                            !._iteration = l._iteration]
    /\ LoopFrame

TodoIds == {TodoId(n) : n \in 1..MaxCreated}

LoopNext ==
    \/ \E d \in Descriptions, m \in Metadatas : AddTodo(d, m)
    \/ \E n \in 0..MaxTodos : SetTodos([i \in 1..n |-> "Task " \o ToString(i)])
    \/ \E t \in TodoIds : MarkInProgress(t)
    \/ \E t \in TodoIds, r \in Results : MarkComplete(t, r)
    \/ \E t \in TodoIds, e \in Errors : MarkFailed(t, e)
    \/ \E t \in TodoIds, r \in Reasons : MarkSkipped(t, r)
    \/ IncrementIteration
    \/ Restore

LoopSpec == LoopInit /\ [][LoopNext]_vars

\* C28: in every reachable state of the loop can_continue() is false exactly
\* when every todo has a terminal status (vacuously for an empty list) or the
\* iteration counter has reached max_iterations; all_complete() is "every
\* todo is completed, failed or skipped" and any_failed() is "some todo is
\* failed"
C28_CanContinue ==
    LET terminal(i) == loop.todos[i].status \in {"COMPLETED", "FAILED", "SKIPPED"} IN
    /\ ~CanContinue(loop) <=>
         \/ \A i \in DOMAIN loop.todos : terminal(i)
         \/ loop._iteration >= loop.max_iterations
    /\ AllComplete(loop) <=> \A i \in DOMAIN loop.todos : terminal(i)
    /\ AnyFailed(loop) <=> \E i \in DOMAIN loop.todos : loop.todos[i].status = "FAILED"

\* the counter has just reached max_iterations while a todo is still pending
C28_Witness ==
    /\ loop._iteration = loop.max_iterations
    /\ loop.max_iterations = MaxIterations
    /\ Len(loop.todos) = 2
    /\ loop.todos[1].status = "FAILED"
    /\ loop.todos[2].status = "PENDING"
    /\ ~CanContinue(loop)
    /\ ~AllComplete(loop)
    /\ AnyFailed(loop)

\* C29: for every reachable loop L, from_state(to_state(L)) has the same todo
\* list as L: same length and order and, item by item, the same id,
\* description, status, result, error and metadata
C29_RoundTrip ==
    LET back == FromState(ToState(loop), DefaultMaxIterations).todos IN
    /\ Len(back) = Len(loop.todos)
    /\ \A i \in DOMAIN loop.todos :
         /\ back[i].id = loop.todos[i].id
         /\ back[i].description = loop.todos[i].description
         /\ back[i].status = loop.todos[i].status
         /\ back[i].result = loop.todos[i].result
         /\ back[i].error = loop.todos[i].error
         /\ back[i].metadata = loop.todos[i].metadata

\* a loop restored by from_state(to_state()), which has the default
\* max_iterations, holds a completed todo with a
\* result and metadata followed by a skipped todo with a reason
C29_Witness ==
    /\ loop.max_iterations = DefaultMaxIterations
    /\ Len(loop.todos) = 2
    /\ loop.todos[1].status = "COMPLETED"
    /\ loop.todos[1].result = Given(Dict1("x", "1"))
    /\ loop.todos[1].metadata = Dict1("source", "user")
    /\ loop.todos[2].status = "SKIPPED"
    /\ loop.todos[2].error = "error"
    /\ loop.todos[1].id # loop.todos[2].id

----------------------------------------------------------------------------
(* SubgraphBuilder.extract                                                 *)
(*                                                                         *)
(* Here a node also carries its name and its handler (the name of the      *)
(* function), so that a copy can be told from another node's.              *)

\* StateGraph()
NewGraph == [nodes |-> EmptyDict, edges |-> <<>>, entry_point |-> None]

\* graph.add_node(name, handler, retry_policy, on_failure)
AddNode(g, name, handler, retry_policy, on_failure) ==
    [g EXCEPT !.nodes = Put(@, name, [name |-> name, handler |-> handler,
                                      retry_policy |-> retry_policy,
                                      on_failure |-> on_failure])]

\* graph.add_edge(source, target)
AddEdge(g, source, target) == [g EXCEPT !.edges = Append(@, Edge(source, target))]

\* graph.add_conditional_edge(source, condition)
AddConditionalEdge(g, source, condition) ==
    [g EXCEPT !.edges = Append(@, CondEdge(source, condition))]

\* the loop over node_names from position i on: the first name that is not
\* in the parent raises
RECURSIVE CopyNodes(_, _, _, _)
CopyNodes(g, parent_nodes, node_names, i) ==
    IF i > Len(node_names) THEN [raised |-> NoExc, graph |-> g]
    ELSE IF node_names[i] \notin DOMAIN parent_nodes
    THEN [raised |-> [type |-> "ValueError",
                      msg |-> "Node '" \o node_names[i] \o "' not found in parent graph"],
          graph |-> g]
    ELSE LET node == parent_nodes[node_names[i]] IN
         CopyNodes(AddNode(g, node.name, node.handler, node.retry_policy, node.on_failure),
                   parent_nodes, node_names, i + 1)

Connects_Inside(edge, node_names) ==
    edge.source \in Elems(node_names) /\ edge.target \in Elems(node_names)

\* the test that selects the edges to copy
Connects(edge, node_names) ==
    /\ edge.source \in Elems(node_names)
    /\ \/ edge.target = None
       \/ edge.target \in Elems(node_names)
       \/ edge.target = END

\* the loop over the parent's edges from position i on
RECURSIVE CopyEdges(_, _, _, _)
CopyEdges(g, parent_edges, node_names, i) ==
    IF i > Len(parent_edges) THEN g
    ELSE LET edge == parent_edges[i]
             g1 == IF ~Connects(edge, node_names) THEN g
                   ELSE IF Truthy(edge.condition)
                   THEN AddConditionalEdge(g, edge.source, edge.condition)
                   ELSE AddEdge(g, edge.source,
                                IF Truthy(edge.target) THEN edge.target ELSE END)
         IN CopyEdges(g1, parent_edges, node_names, i + 1)

\* graph.set_entry_point(node_name)
SetEntryPoint(g, node_name) ==
    IF node_name \notin DOMAIN g.nodes
    THEN [raised |-> UnknownNodeErr(node_name), graph |-> g]
    ELSE [raised |-> NoExc, graph |-> [g EXCEPT !.entry_point = node_name]]

\* SubgraphBuilder(parent).extract(node_names, entry_point)
Extract(parent, node_names, entry) ==
    LET copied == CopyNodes(NewGraph, parent.nodes, node_names, 1) IN
    IF copied.raised # NoExc THEN copied
    ELSE SetEntryPoint(CopyEdges(copied.graph, parent.edges, node_names, 1), entry)

\* the parents: two nodes with their own handlers and settings, every edge list
BuilderParents ==
    {[nodes |-> [n \in NodeNames |->
                   [name |-> n, handler |-> "handler_" \o n,
                    retry_policy |-> IF n = "a" THEN pa ELSE NoPolicy,
                    on_failure |-> IF n = "a" THEN "skip" ELSE "error"]],
      edges |-> es, entry_point |-> e] :
        pa \in {NoPolicy, Policy(MaxAttempts, AllTypes)}, es \in EdgeLists,
        e \in {"a", None}}

NodeNameLists ==
    LET names == NodeNames \cup {Ghost}
    IN {<<>>} \cup {<<n>> : n \in names} \cup {<<n, m>> : n \in names, m \in names}

\* SubgraphBuilder(parent_graph) has been constructed and the arguments of one
\* extract call are chosen
BuilderInit ==
    /\ \E g \in BuilderParents : Built({g})
    /\ retry = RetryIdle
    /\ client = ClientIdle
    /\ executor = Unused /\ gather = Unused /\ stack = Unused /\ loop = Unused
    /\ validation = Unused
    /\ \E l \in NodeNameLists, e \in NodeNames \cup {Ghost} :
         builder = [pc |-> "called", node_names |-> l, entry_point |-> e,
                    parent |-> [nodes |-> nodes, edges |-> edges,
                                entry_point |-> entry_point],
                    subgraph |-> NewGraph, raised |-> NoExc]

\* extract runs to its return or to the exception it raises
ExtractCall ==
    /\ builder.pc = "called"
    /\ LET r == Extract([nodes |-> nodes, edges |-> edges, entry_point |-> entry_point],
                        builder.node_names, builder.entry_point)
       IN builder' = IF r.raised = NoExc
                     THEN [builder EXCEPT !.pc = "returned", !.subgraph = r.graph]
                     ELSE [builder EXCEPT !.pc = "raised", !.raised = r.raised]
    /\ UNCHANGED <<graphVars, runVars, cpVars, now, last, retry, client,
                   executor, gather, stack, loop, validation>>

BuilderNext == ExtractCall

BuilderSpec == BuilderInit /\ [][BuilderNext]_vars

\* C30: when extract(names, entry) returns, the new graph's node set is
\* exactly names, each node with the handler, retry policy and failure policy
\* it has in the parent; its edges are, in the parent's registration order,
\* exactly the parent's edges whose source is in names and whose target is in
\* names, is END or is absent (conditional edge); its entry point is entry;
\* the parent's nodes, edges and entry point are as before the call
C30_Extract ==
    builder.pc = "returned" =>
        LET names == Elems(builder.node_names)
            kept(e) == /\ e.source \in names
                       /\ e.target \in names \cup {END, None}
        IN /\ DOMAIN builder.subgraph.nodes = names
           /\ \A n \in names :
                /\ builder.subgraph.nodes[n].handler = builder.parent.nodes[n].handler
                /\ builder.subgraph.nodes[n].retry_policy
                       = builder.parent.nodes[n].retry_policy
                /\ builder.subgraph.nodes[n].on_failure
                       = builder.parent.nodes[n].on_failure
           /\ builder.subgraph.edges = SelectSeq(builder.parent.edges, kept)
           /\ builder.subgraph.entry_point = builder.entry_point
           /\ nodes = builder.parent.nodes
           /\ edges = builder.parent.edges
           /\ entry_point = builder.parent.entry_point

\* node a alone was extracted from a parent with the edges a -> b and
\* a -> END: the first edge was dropped, the second kept, and a kept its
\* retry policy
C30_Witness ==
    /\ builder.pc = "returned"
    /\ builder.node_names = <<"a">>
    /\ builder.parent.edges = <<Edge("a", "b"), Edge("a", END)>>
    /\ builder.subgraph.edges = <<Edge("a", END)>>
    /\ builder.subgraph.nodes["a"].retry_policy = Policy(MaxAttempts, AllTypes)
    /\ builder.subgraph.entry_point = "a"
    /\ builder.parent.entry_point = None

\* extract raises for a name that is not in the parent and for an entry that
\* is not among the names, and returns otherwise
C30_RaisesOnUnknown ==
    builder.pc # "called" =>
        (builder.pc = "raised" <=>
            \/ ~(Elems(builder.node_names) \subseteq DOMAIN builder.parent.nodes)
            \/ builder.entry_point \notin Elems(builder.node_names))

----------------------------------------------------------------------------
(* StateGraph.validate                                                     *)
(*                                                                         *)
(* The order in which a dict yields its keys is not modelled: the errors   *)
(* of the loop over self.nodes are listed in an arbitrary fixed order.     *)

\* the errors the loop over self.edges appends, from position i on
RECURSIVE EdgeErrors(_, _, _)
EdgeErrors(es, ns, i) ==
    IF i > Len(es) THEN <<>>
    ELSE (IF es[i].source \notin DOMAIN ns
          THEN <<"Edge source '" \o es[i].source \o "' not found in nodes">>
          ELSE <<>>)
         \o (IF Truthy(es[i].target) /\ es[i].target # END
                /\ es[i].target \notin DOMAIN ns
             THEN <<"Edge target '" \o es[i].target \o "' not found in nodes">>
             ELSE <<>>)
         \o EdgeErrors(es, ns, i + 1)

\* the errors the loop over self.nodes appends for the names in todo
RECURSIVE NodeErrors(_, _)
NodeErrors(todo, nodes_with_edges) ==
    IF todo = {} THEN <<>>
    ELSE LET n == CHOOSE x \in todo : TRUE IN
         (IF n \notin nodes_with_edges
          THEN <<"Node '" \o n \o "' has no outgoing edges">>
          ELSE <<>>)
         \o NodeErrors(todo \ {n}, nodes_with_edges)

\* StateGraph.validate on the graph g
Validate(g) ==
    (IF g.entry_point = None THEN <<"No entry point set">> ELSE <<>>)
    \o (IF Truthy(g.entry_point) /\ g.entry_point \notin DOMAIN g.nodes
        THEN <<"Entry point '" \o g.entry_point \o "' not found in nodes">>
        ELSE <<>>)
    \o EdgeErrors(g.edges, g.nodes, 1)
    \o NodeErrors(DOMAIN g.nodes, {g.edges[i].source : i \in DOMAIN g.edges})

\* the graph held by the variables
ThisGraph == [nodes |-> nodes, edges |-> edges, entry_point |-> entry_point]

\* edge lists whose first edge has the empty string as its target
EmptyTargetLists ==
    {<<Edge(n, "")>> : n \in NodeNames}
    \cup {<<Edge(n, ""), e>> : n \in NodeNames, e \in EdgeChoices}

\* graphs with none, one or both of the nodes registered, every edge list and
\* every entry point, the unregistered name and the empty string included
ValidateGraphs ==
    {[nodes |-> [n \in ns |-> DefaultNodes[n]], edges |-> es, entry_point |-> e] :
        ns \in SUBSET NodeNames, es \in EdgeLists \cup EmptyTargetLists,
        e \in NodeNames \cup {None, Ghost, ""}}

\* a graph has been built, well-formed or not
ValidateInit ==
    /\ Built(ValidateGraphs)
    /\ retry = RetryIdle
    /\ client = ClientIdle
    /\ executor = Unused /\ gather = Unused /\ stack = Unused /\ loop = Unused
    /\ builder = Unused
    /\ validation = [pc |-> "built", graph |-> ThisGraph, errors |-> <<>>]

\* errors = graph.validate()
ValidateCall ==
    /\ validation.pc = "built"
    /\ validation' = [validation EXCEPT !.pc = "returned", !.errors = Validate(ThisGraph)]
    /\ UNCHANGED <<graphVars, runVars, cpVars, now, last, retry, client,
                   executor, gather, stack, loop, builder>>

ValidateNext == ValidateCall

ValidateSpec == ValidateInit /\ [][ValidateNext]_vars

\* the graph g is well-formed: an entry point is set and registered, every
\* edge source is registered, every target that is given is registered or END,
\* every registered node has an outgoing edge
WellFormed(g) ==
    /\ g.entry_point # None
    /\ g.entry_point \in DOMAIN g.nodes
    /\ \A i \in DOMAIN g.edges :
         /\ g.edges[i].source \in DOMAIN g.nodes
         /\ g.edges[i].target = None \/ g.edges[i].target \in DOMAIN g.nodes \cup {END}
    /\ \A n \in DOMAIN g.nodes : \E i \in DOMAIN g.edges : g.edges[i].source = n

\* the names validate looks up: None and the empty string are not among them
Named(name) == name \notin {None, ""}

\* the number of violations validate reports for g
Violations(g) ==
    (IF g.entry_point = None THEN 1 ELSE 0)
    + (IF Named(g.entry_point) /\ g.entry_point \notin DOMAIN g.nodes THEN 1 ELSE 0)
    + Cardinality({i \in DOMAIN g.edges : g.edges[i].source \notin DOMAIN g.nodes})
    + Cardinality({i \in DOMAIN g.edges :
                     /\ Named(g.edges[i].target)
                     /\ g.edges[i].target \notin DOMAIN g.nodes \cup {END}})
    + Cardinality({n \in DOMAIN g.nodes :
                     \A i \in DOMAIN g.edges : g.edges[i].source # n})

\* validate neither raises nor modifies the graph
ValidateIsPure ==
    /\ validation.pc \in {"built", "returned"}
    /\ ThisGraph = validation.graph

\* C31 as stated: validate never raises and never modifies the graph, and it
\* returns the empty list if and only if an entry point is set and registered,
\* every edge source is registered, every explicit edge target is registered
\* or END and every registered node is the source of an edge
C31_Original ==
    /\ ValidateIsPure
    /\ validation.pc = "returned" =>
         (validation.errors = <<>> <=> WellFormed(validation.graph))

\* C31 as built: validate never raises and never modifies the graph; it
\* returns one error string per violation, where an entry point or an edge
\* target that is the empty string is not looked up and counts as no
\* violation; on graphs without the empty string as entry point or target the
\* list is empty if and only if the graph is well-formed
C31_AsBuilt ==
    /\ ValidateIsPure
    /\ validation.pc = "returned" =>
         /\ Len(validation.errors) = Violations(validation.graph)
         /\ (/\ validation.graph.entry_point # ""
             /\ \A i \in DOMAIN validation.graph.edges :
                  validation.graph.edges[i].target # "")
            => (validation.errors = <<>> <=> WellFormed(validation.graph))

\* validate returned the empty list for a graph whose entry point is the
\* empty string, which is not a registered node
C31_EmptyEntryPasses ==
    /\ validation.pc = "returned"
    /\ validation.errors = <<>>
    /\ entry_point = ""
    /\ DOMAIN nodes = {"a"}

\* validate returned two errors: a dangling edge target and a node without
\* outgoing edge
C31_Witness ==
    /\ validation.pc = "returned"
    /\ Len(validation.errors) = 2
    /\ entry_point = "a"
    /\ DOMAIN nodes = {"a", "b"}
    /\ edges = <<Edge("a", Ghost)>>
    /\ validation.errors[1] = "Edge target 'ghost' not found in nodes"

\* validate returned the empty list
C31_NoErrors ==
    /\ validation.pc = "returned"
    /\ validation.errors = <<>>
    /\ Len(edges) = 2

----------------------------------------------------------------------------
(* Validation and the unknown-node condition                               *)

\* validate() returns no errors for the graph and no edge has a router
ValidatedUnconditional ==
    /\ Validate(ThisGraph) = <<>>
    /\ \A i \in DOMAIN edges : edges[i].condition = None

\* run has raised the unknown-node error
UnknownNodeReached == pc = "raised" /\ last.op = "unknown"

\* C35 as stated: a graph for which validate() returns no errors and whose
\* edges are all unconditional never reaches the unknown-node condition during
\* run, whatever the failure policies of its nodes and whichever handlers fail
C35_Original == ValidatedUnconditional => ~UnknownNodeReached

\* C35 as built: the same under the further conditions that every failure
\* policy is "error", "skip", END or a registered node
C35_AsBuilt ==
    (/\ ValidatedUnconditional
     /\ \A n \in DOMAIN nodes : nodes[n].on_failure \in {"error", "skip", END} \cup DOMAIN nodes)
    => ~UnknownNodeReached

\* a validated graph without routers raised the unknown-node error after the
\* handler of a node whose failure policy names an unregistered node failed
C35_RedirectToUnknown ==
    /\ ValidatedUnconditional
    /\ UnknownNodeReached
    /\ current_node = Ghost
    /\ \E n \in DOMAIN nodes : nodes[n].on_failure = Ghost
    /\ Get(state, "_error", None) # None

----------------------------------------------------------------------------
(* The node status of a returned state                                     *)

\* run returns normally in this step, after invoking at least one handler
ReturnsAfterWork == pc = "running" /\ pc' = "returned" /\ first # None

\* the returned state records the last step's node and the status named
\* outcome
Records(outcome) ==
    /\ last.op = "step" /\ last.calls > 0
    /\ Get(state', "_current_node", None) = last.node
    /\ Get(state', "_node_status", None) = outcome

\* C32 as stated: when run returns normally after executing at least one
\* node, _node_status is the outcome of the last node whose handler was
\* invoked, "success" or "skipped", _current_node is that node's name, and
\* the status is never "running", "pending" or "failed"
C32_Original ==
    [][ReturnsAfterWork =>
         \/ last.branch = "success" /\ Records("success")
         \/ last.branch = "skip" /\ Records("skipped")]_vars

\* C32 as built: when run returns normally after executing at least one node,
\* _current_node is the last node whose handler was invoked and _node_status
\* is its outcome: "success", "skipped", or "failed" when that node failed
\* and its failure policy redirected the run to END; the status is never
\* "running" or "pending"
C32_LastNodeOutcome ==
    [][ReturnsAfterWork =>
         \/ last.branch = "success" /\ Records("success")
         \/ last.branch = "skip" /\ Records("skipped")
         \/ /\ last.branch = "redirect" /\ Records("failed")
            /\ nodes[last.node].on_failure = END]_vars

\* run returned after a skipped node, with status "skipped"
C32_Witness ==
    /\ pc = "returned" /\ first # None
    /\ Get(state, "_node_status", None) = "skipped"
    /\ Get(state, "_current_node", None) = "b"
    /\ first = "a"

\* run returned normally with status "failed": the handler of the last node
\* failed and its failure policy is END
C32_ReturnsFailed ==
    /\ pc = "returned" /\ first # None
    /\ Get(state, "_node_status", None) = "failed"
    /\ \E n \in DOMAIN nodes : nodes[n].on_failure = END

----------------------------------------------------------------------------
(* Crash and resume                                                        *)
(*                                                                         *)
(* A run can be abandoned between two iterations of its loop (the process  *)
(* dies, the task is cancelled); the checkpointer outlives it and a later  *)
(* run under the same thread id resumes from the stored snapshot.          *)

\* graphs whose runs never meet an unregistered node
CrashGraphs ==
    {[nodes |-> [n \in NodeNames |-> IF n = "a" THEN Node(NoPolicy, fa) ELSE Node(NoPolicy, fb)],
      edges |-> es, entry_point |-> "a"] :
        fa \in {"error", "skip", "b"}, fb \in {"error", "skip", END},
        es \in {<<Edge("a", "b"), Edge("b", END)>>,
                <<CondEdge("a", "route_by_counter"), Edge("b", "a")>>}}

CrashInit == InitWith(CrashGraphs)

\* the run is abandoned before the next test of the while loop
Crash ==
    /\ pc = "running"
    /\ pc' = "crashed"
    /\ last' = [NoStep EXCEPT !.op = "crash"]
    /\ UNCHANGED <<graphVars, directVars, cpVars, state, current_node, thread_id,
                   checkpointer, raised, now, runs, first>>

CrashNext ==
    \/ \E s \in InitialStates : RunStart(s, TRUE)
    \/ \E o \in OutcomeSeqs : RunStep(o)
    \/ RunReturn
    \/ Crash

CrashSpec == CrashInit /\ [][CrashNext]_vars

\* the step just taken wrote the success checkpoint
SuccessCheckpoint == last.op = "step" /\ last.branch = "success" /\ last.saved

\* the node recorded in the snapshot stored for thread id t
RecordedNode(t) == Get(_store[t], "_current_node", None)

\* the last step of the earlier run wrote a checkpoint: it succeeded, was
\* skipped, or failed and propagated
EarlierRunSaved ==
    /\ pc \in {"crashed", "returned", "raised"}
    /\ Checkpointing
    /\ \/ Get(state, "_node_status", None) \in {"success", "skipped"}
       \/ Get(state, "_node_status", None) = "failed" /\ pc = "raised"

\* a run starts in this step under the thread id of the earlier run
RunsAgain == pc # "running" /\ pc' = "running" /\ thread_id' = thread_id

\* the first iteration of a resumed run happens in this step
FirstResumedStep == last.op = "start" /\ last.resumed /\ last'.op = "step"

C34_RerunsFinalNode ==
    /\ pc = "returned" /\ runs = 2
    /\ first = "b"
    /\ edges = <<Edge("a", "b"), Edge("b", END)>>
    /\ Get(state, "counter", 0) = 3
    /\ Get(state, "_error", None) = None

----------------------------------------------------------------------------
(* The outcome of RetryPolicy.execute                                      *)

\* execute invoked the handler and its outcome is the handler's: the value
\* the last invocation returned or a failure an invocation raised
OutcomeIsHandlers ==
    /\ Len(retry.calls) >= 1
    /\ retry.pc = "returned" =>
         /\ retry.calls[Len(retry.calls)] = Ok
         /\ retry.state = Put(RetryInput, "counter", 1)
    /\ retry.pc = "raised" =>
         \E i \in 1..Len(retry.calls) : retry.calls[i] # Ok /\ retry.exc = retry.calls[i]

\* C39 as stated: for every max_attempts, zero included, execute invokes the
\* handler at least once and either returns a value returned by the handler
\* or raises a failure raised by the handler, never an error of its own
C39_Original == RetryDone => OutcomeIsHandlers

\* C39 as built: the same for every max_attempts >= 1
C39_AsBuilt == RetryDone /\ retry.self.max_attempts >= 1 => OutcomeIsHandlers

\* with max_attempts = 0 execute raised its own RuntimeError without
\* invoking the handler
C39_OwnError ==
    /\ retry.pc = "raised"
    /\ retry.self.max_attempts = 0
    /\ retry.calls = <<>>
    /\ retry.exc.type = "RuntimeError"
    /\ retry.exc.msg = "Retry loop completed without result or exception"

----------------------------------------------------------------------------
(* Handlers that write to the state before they raise                      *)

\* what an invocation of such a handler does
PartialOutcomes == {Ok, PartialErr, ValueErr}

PartialOutcomeSeqs == [1..MaxAttempts -> PartialOutcomes]

\* a -> b -> END where a has or has not a retry policy and any failure policy
PartialGraphs ==
    {[nodes |-> [n \in NodeNames |-> IF n = "a" THEN Node(pa, fa) ELSE Node(NoPolicy, "error")],
      edges |-> <<Edge("a", "b"), Edge("b", END)>>, entry_point |-> "a"] :
        pa \in {NoPolicy, Policy(MaxAttempts, AllTypes)}, fa \in {"error", "skip", "b"}}

PartialInit == InitWith(PartialGraphs)

PartialNext ==
    \/ \E s \in InitialStates, c \in BOOLEAN : RunStart(s, c)
    \/ \E o \in PartialOutcomeSeqs : RunStep(o)
    \/ RunReturn

PartialSpec == PartialInit /\ [][PartialNext]_vars

\* the invocations among the first n of o that wrote to the state and raised
Wrote(o, n) == Cardinality({i \in 1..n : o[i] = PartialErr})

\* the iteration taken or the return keeps the run going on the same state
SameRun == pc = "running" /\ last'.op \in {"step", "return"}

\* C38: nothing rolls the state back. After an iteration the counter holds
\* the increment of every handler invocation that raised after writing, next
\* to that of the invocation that returned: the writes of an attempt that
\* raised are seen by the next retry attempt, by the node reached after a
\* skip or a redirect (it starts on this state) and by the checkpoint written
\* on a propagated failure; and _error, once written, stays in the state of
\* the run through later iterations, successful ones included
C38_NoRollback ==
    /\ [][\A o \in PartialOutcomeSeqs :
            RunStep(o) =>
              /\ Get(state', "counter", 0) =
                   Get(state, "counter", 0) + Wrote(o, last'.calls)
                     + (IF last'.branch = "success" THEN 1 ELSE 0)
              /\ (last'.branch = "error" /\ checkpointer /\ Truthy(thread_id)) =>
                   Get(_store'[thread_id], "counter", 0) = Get(state', "counter", 0)]_vars
    /\ [][SameRun /\ Get(state, "_error", None) # None =>
            Get(state', "_error", None) = Get(state, "_error", None)
            \/ (last'.op = "step" /\ last'.branch # "success")]_vars

\* a's first attempt wrote and raised, its second attempt returned, and b
\* succeeded: the counter holds three increments
C38_Witness ==
    /\ pc = "returned"
    /\ nodes["a"].retry_policy # NoPolicy
    /\ runs = 1
    /\ Get(state, "counter", 0) = 3
    /\ Get(state, "_error", None) = None

\* a wrote, raised and was skipped; b succeeded on the state a left and the
\* returned state still holds a's error
C38_ErrorSurvives ==
    /\ pc = "returned"
    /\ nodes["a"].on_failure = "skip"
    /\ nodes["a"].retry_policy = NoPolicy
    /\ runs = 1
    /\ Get(state, "counter", 0) = 2
    /\ Get(state, "_node_status", None) = "success"
    /\ Get(state, "_error", None) = PartialErr.msg

----------------------------------------------------------------------------
(* Terminal statuses of a todo                                             *)

Terminal == {"COMPLETED", "FAILED", "SKIPPED"}

\* the step keeps the todos of the list: it is a mark_* call (or a no-op),
\* not add_todo or set_todos
KeepsTodos ==
    /\ Len(loop'.todos) = Len(loop.todos)
    /\ \A i \in DOMAIN loop.todos : loop'.todos[i].id = loop.todos[i].id

\* C36 as stated: once a todo is completed, failed or skipped, no mark_* call
\* returns it to pending or in_progress, so all_complete() turns from true to
\* false only through add_todo or set_todos
C36_Original ==
    [][KeepsTodos =>
         /\ \A i \in DOMAIN loop.todos :
              loop.todos[i].status \in Terminal => loop'.todos[i].status \in Terminal
         /\ AllComplete(loop) => AllComplete(loop')]_vars

\* C36 as built: no mark_* call returns a todo to pending, and of the four
\* calls only mark_in_progress takes a todo out of the terminal statuses
C36_AsBuilt ==
    [][KeepsTodos =>
         \A i \in DOMAIN loop.todos :
            /\ loop.todos[i].status # "PENDING" => loop'.todos[i].status # "PENDING"
            /\ loop.todos[i].status \in Terminal =>
                 loop'.todos[i].status \in Terminal \cup {"IN_PROGRESS"}]_vars

\* a todo that was completed with a result is in progress again, and
\* all_complete() is false
C36_Reopened ==
    /\ Len(loop.todos) = 1
    /\ loop.todos[1].status = "IN_PROGRESS"
    /\ loop.todos[1].result = Given(Dict1("x", "1"))
    /\ ~AllComplete(loop)

----------------------------------------------------------------------------
(* Rebuilding a loop from its serialized state                             *)

MaxRebuilds == 2        \* from_state calls per behaviour

\* the max_iterations argument of from_state: omitted, or a number
RebuildArgs == {NotGiven, Given(1), Given(MaxIterations + 1)}

\* a loop that records the from_state calls made on its state: their number
\* and the argument of the last one
RebuildInit ==
    /\ Built({NoGraph})
    /\ retry = RetryIdle
    /\ client = ClientIdle
    /\ executor = Unused /\ gather = Unused /\ stack = Unused /\ builder = Unused
    /\ validation = Unused
    /\ \E m \in {1, MaxIterations} :
         loop = [todos |-> <<>>, max_iterations |-> m, _iteration |-> 0,
                 created |-> 0, rebuilds |-> 0, arg |-> NotGiven]

\* loop = PlanningLoop.from_state(loop.to_state()) or
\* loop = PlanningLoop.from_state(loop.to_state(), max_iterations)
Rebuild(max_iterations) ==
    /\ loop.rebuilds < MaxRebuilds
    /\ LET l == IF max_iterations = NotGiven
                THEN FromState(ToState(loop), DefaultMaxIterations)
                ELSE FromState(ToState(loop), max_iterations[1])
       IN loop' = [loop EXCEPT !.todos = l.todos, !.max_iterations = l.max_iterations,
                               !._iteration = l._iteration,
                               !.rebuilds = @ + 1, !.arg = max_iterations]
    /\ LoopFrame

RebuildNext ==
    \/ \E d \in Descriptions, m \in Metadatas : AddTodo(d, m)
    \/ \E n \in 0..MaxTodos : SetTodos([i \in 1..n |-> "Task " \o ToString(i)])
    \/ \E t \in TodoIds, r \in Results : MarkComplete(t, r)
    \/ IncrementIteration
    \/ \E m \in RebuildArgs : Rebuild(m)

RebuildSpec == RebuildInit /\ [][RebuildNext]_vars

\* the step replaces the list or appends to it: set_todos or add_todo
ChangesList ==
    \/ Len(loop'.todos) # Len(loop.todos)
    \/ \E i \in DOMAIN loop.todos : loop'.todos[i].id # loop.todos[i].id

\* C40: a loop rebuilt with from_state(to_state()) has iteration counter 0 and
\* the max_iterations given to from_state, 10 when none is given, whatever
\* the counter and the maximum of the serialized loop were, and the todos it
\* had; set_todos and add_todo leave the iteration counter as it was
C40_BoundNotSerialized ==
    /\ [][loop'.rebuilds # loop.rebuilds =>
            /\ loop'._iteration = 0
            /\ loop'.max_iterations = (IF loop'.arg = NotGiven THEN 10 ELSE loop'.arg[1])
            /\ loop'.todos = loop.todos]_vars
    /\ [][ChangesList =>
            /\ loop'._iteration = loop._iteration
            /\ loop'.max_iterations = loop.max_iterations]_vars

\* a loop built with max_iterations 1 or MaxIterations, holding a completed
\* and an open todo, was rebuilt without argument: counter 0, maximum 10, and
\* it can continue
C40_Witness ==
    /\ loop.rebuilds = 1 /\ loop.arg = NotGiven
    /\ loop._iteration = 0
    /\ loop.max_iterations = 10
    /\ Len(loop.todos) = 2
    /\ loop.todos[1].status = "COMPLETED"
    /\ CanContinue(loop)

\* set_todos was called after an iteration had been counted
C40_CounterKept ==
    /\ loop._iteration = 1
    /\ loop.rebuilds = 0
    /\ loop.created = 2
    /\ Len(loop.todos) = 1

----------------------------------------------------------------------------
(* The driver loop of the PlanningLoop docstring, statement by statement   *)
(*                                                                         *)
(*     while loop.can_continue():                                          *)
(*         todo = loop.get_next_pending()                                  *)
(*         if not todo: break                                              *)
(*         loop.mark_in_progress(todo.id)                                  *)
(*         try: loop.mark_complete(todo.id, await execute_todo(todo))      *)
(*         except Exception as e: loop.mark_failed(todo.id, str(e))        *)

\* PlanningLoop.get_next_pending: the index of the first pending todo, 0 for
\* None
GetNextPending(l) ==
    IF \E i \in DOMAIN l.todos : l.todos[i].status = "PENDING"
    THEN CHOOSE i \in DOMAIN l.todos :
            /\ l.todos[i].status = "PENDING"
            /\ \A j \in 1..(i - 1) : l.todos[j].status # "PENDING"
    ELSE 0

\* the loop after mark_in_progress(todo_id)
MarkedInProgress(l, todo_id) ==
    LET i == GetTodo(l, todo_id) IN
    IF i # 0 THEN [l EXCEPT !.todos[i].status = "IN_PROGRESS"] ELSE l

\* the loop after mark_complete(todo_id, result)
MarkedComplete(l, todo_id, result) ==
    LET i == GetTodo(l, todo_id) IN
    IF i # 0 THEN [l EXCEPT !.todos[i].status = "COMPLETED", !.todos[i].result = result]
    ELSE l

MarkedFailed_Requeued(l, todo_id, error) ==
    LET i == GetTodo(l, todo_id) IN
    IF i # 0 THEN [l EXCEPT !.todos[i].status = "PENDING", !.todos[i].error = error]
    ELSE l

\* the loop after mark_failed(todo_id, error)
MarkedFailed(l, todo_id, error) ==
    LET i == GetTodo(l, todo_id) IN
    IF i # 0 THEN [l EXCEPT !.todos[i].status = "FAILED", !.todos[i].error = error]
    ELSE l

\* todo lists of up to MaxTodos todos in any status
DriverTodos ==
    UNION {[1..n -> {"PENDING", "IN_PROGRESS", "COMPLETED", "FAILED", "SKIPPED"}] :
             n \in 0..MaxTodos}

\* a loop whose counter is 0 holds some todos; the driver is about to test
\* the while condition for the first time
DriverInit ==
    /\ Built({NoGraph})
    /\ retry = RetryIdle
    /\ client = ClientIdle
    /\ executor = Unused /\ gather = Unused /\ stack = Unused /\ builder = Unused
    /\ validation = Unused
    /\ \E m \in {1, MaxIterations, DefaultMaxIterations}, statuses \in DriverTodos :
         loop = [todos |-> [i \in DOMAIN statuses |->
                              [Todo(TodoId(i), "Task", NotGiven) EXCEPT !.status = statuses[i]]],
                 max_iterations |-> m, _iteration |-> 0, created |-> Len(statuses),
                 pc |-> "while", todo |-> None, iterations |-> 0]

\* while loop.can_continue():
DriverTest ==
    /\ loop.pc = "while"
    /\ loop' = [loop EXCEPT !.pc = IF CanContinue(loop) THEN "next" ELSE "exit"]
    /\ LoopFrame

\* todo = loop.get_next_pending(); if not todo: break
DriverTake ==
    /\ loop.pc = "next"
    /\ LET i == GetNextPending(loop) IN
       loop' = IF i = 0 THEN [loop EXCEPT !.pc = "exit"]
               ELSE [loop EXCEPT !.pc = "mark", !.todo = loop.todos[i].id]
    /\ LoopFrame

\* loop.mark_in_progress(todo.id)
DriverMark ==
    /\ loop.pc = "mark"
    /\ loop' = [MarkedInProgress(loop, loop.todo) EXCEPT !.pc = "try"]
    /\ LoopFrame

\* execute_todo returns result: loop.mark_complete(todo.id, result)
DriverComplete(result) ==
    /\ loop.pc = "try"
    /\ loop.iterations <= Len(loop.todos)
    /\ loop' = [MarkedComplete(loop, loop.todo, result) EXCEPT
                  !.pc = "while", !.iterations = @ + 1]
    /\ LoopFrame

\* execute_todo raises e: loop.mark_failed(todo.id, str(e))
DriverFail(error) ==
    /\ loop.pc = "try"
    /\ loop.iterations <= Len(loop.todos)
    /\ loop' = [MarkedFailed(loop, loop.todo, error) EXCEPT
                  !.pc = "while", !.iterations = @ + 1]
    /\ LoopFrame

DriverNext ==
    \/ DriverTest
    \/ DriverTake
    \/ DriverMark
    \/ \E r \in Results : DriverComplete(r)
    \/ \E e \in Errors : DriverFail(e)

\* the driver is sequential code and execute_todo returns or raises: the
\* statement the driver is at is eventually executed
DriverSpec == DriverInit /\ [][DriverNext]_vars /\ WF_vars(DriverNext)

\* C33: the driver loop terminates for every initial todo list and every
\* outcome of each todo; it never runs more iterations than there are todos;
\* the iteration counter is never incremented; and when the loop is left, by
\* the while test or by break, no todo is pending
C33_DriverTerminates ==
    /\ <>(loop.pc = "exit")
    /\ [](loop.iterations <= Len(loop.todos))
    /\ [](loop._iteration = 0)
    /\ [](loop.pc = "exit" => \A i \in DOMAIN loop.todos : loop.todos[i].status # "PENDING")

\* a loop with max_iterations 1 was left after two iterations, one todo
\* completed and one failed
C33_Witness ==
    /\ loop.pc = "exit"
    /\ loop.max_iterations = 1
    /\ loop.iterations = 2
    /\ Len(loop.todos) = 2
    /\ loop.todos[1].status = "COMPLETED"
    /\ loop.todos[2].status = "FAILED"

\* the loop was left by break: a todo is still in progress, none is pending
C33_LeftByBreak ==
    /\ loop.pc = "exit"
    /\ CanContinue(loop)
    /\ loop.iterations = 1

----------------------------------------------------------------------------
(* The caller's mappings after run and execute                             *)

RunShares_All == "all"

\* what the dict run works on shares with the caller's initial_state:
\* state = {**initial_state} is a new dict holding the same values
RunShares == "nested"

\* what execute's substate shares with the caller's initial_state:
\* substate = {**initial_state}
SubstateShares == "nested"

\* the caller's initial_state as the caller finds it after a direct run: the
\* live state if run worked on the caller's dict itself
SeenAfterRun(initial_state) ==
    IF RunShares = "all" /\ pc # "idle" THEN state ELSE initial_state

\* the caller's initial_state after execute: the inherited keys are written
\* to substate, and the nested run is handed substate
SeenAfterExecute(initial_state, parent_state, inherit_keys) ==
    IF SubstateShares = "all"
    THEN SeenAfterRun(Substate(initial_state, parent_state, inherit_keys))
    ELSE initial_state

\* the caller holds the arguments of one call: graph.run(initial_state)
\* ("direct") or executor.execute(initial_state, inherit_keys, None,
\* parent_state) ("called")
CallerInit ==
    /\ Built(ExecutorGraphs)
    /\ retry = RetryIdle
    /\ client = ClientIdle
    /\ gather = Unused /\ stack = Unused /\ loop = Unused /\ builder = Unused
    /\ validation = Unused
    /\ \E i \in ExecutorInitialStates, p \in ParentStates, k \in InheritKeys,
          how \in {"called", "direct"} :
         /\ how = "direct" => p = NotGiven /\ k = NotGiven
         /\ executor = [pc |-> how, initial_state |-> i, parent_state |-> p,
                        inherit_keys |-> k, return_keys |-> NotGiven,
                        record |-> EmptyDict, how |-> how,
                        seen |-> EmptyDict, seen_parent |-> NotGiven]

\* await graph.run(initial_state), up to the first test of the while loop
DirectRun ==
    /\ executor.pc = "direct"
    /\ runs = 0
    /\ RunStart(executor.initial_state, FALSE)

\* the call is over, by return or by exception: the caller looks at the
\* mappings it passed; parent_state is only ever read by execute
Inspect ==
    /\ \/ executor.pc = "direct" /\ pc \in {"returned", "raised"}
       \/ executor.pc \in {"returned", "raised"}
    /\ executor' =
         [executor EXCEPT
            !.pc = "inspected",
            !.seen = IF executor.how = "direct"
                     THEN SeenAfterRun(executor.initial_state)
                     ELSE SeenAfterExecute(executor.initial_state, executor.parent_state,
                                           executor.inherit_keys),
            !.seen_parent = executor.parent_state]
    /\ UNCHANGED <<graphVars, runVars, cpVars, now, last, retry, client,
                   gather, stack, loop, builder, validation>>

CallerNext ==
    \/ DirectRun
    \/ ExecuteRun
    \/ \E o \in OutcomeSeqs : executor.pc \in {"called", "direct"} /\ RunStep(o)
    \/ executor.pc \in {"called", "direct"} /\ RunUnknownNode
    \/ executor.pc \in {"called", "direct"} /\ RunReturn
    \/ ExecuteReturn
    \/ Inspect

CallerSpec == CallerInit /\ [][CallerNext]_vars

C37_AfterFailure ==
    /\ executor.pc = "inspected" /\ executor.how = "direct"
    /\ pc = "raised"
    /\ Get(state, "_error", None) # None
    /\ "_error" \notin DOMAIN executor.seen

====
